---- MODULE Spec2Model ----
(***************************************************************************)
(* Model of the document comparison server (createApp, POST /api/compare): *)
(* the text diff pipeline (edit script, summary, inline and side-by-side   *)
(* renderers) and the structured tree differ.                              *)
(*                                                                         *)
(* A text is a sequence of one-character strings.  A rendered HTML stream  *)
(* is a sequence of pieces whose concatenation is the emitted string: the  *)
(* literal tags a renderer writes are one piece each, every character of   *)
(* an escaped value is a piece of its own.                                 *)
(***************************************************************************)
EXTENDS Integers, Sequences, FiniteSets, TLC

VARIABLES pc, diffMode, leftResult, rightResult, diffParts, response,
          request, env, extraction, calls, now, insightsInput, collector

vars == <<pc, diffMode, leftResult, rightResult, diffParts, response,
          request, env, extraction, calls, now, insightsInput, collector>>

(***************************************************************************)
(* Bounds of the checked input space.                                      *)
(***************************************************************************)
\* longest text of the plain alphabet
MaxLen == 3

\* longest pair (both texts together) of the markup alphabet
MaxMarkupLen == 3

\* longest array of a structured record
MaxArrayLen == 1

(***************************************************************************)
(* Characters.                                                             *)
(***************************************************************************)
NL == "\n"

LowerChars ==
  <<"a", "b", "c", "d", "e", "f", "g", "h", "i", "j", "k", "l", "m",
    "n", "o", "p", "q", "r", "s", "t", "u", "v", "w", "x", "y", "z">>

UpperChars ==
  <<"A", "B", "C", "D", "E", "F", "G", "H", "I", "J", "K", "L", "M",
    "N", "O", "P", "Q", "R", "S", "T", "U", "V", "W", "X", "Y", "Z">>

LetterChars == {LowerChars[i] : i \in 1 .. 26} \cup {UpperChars[i] : i \in 1 .. 26}

DigitChars == {"0", "1", "2", "3", "4", "5", "6", "7", "8", "9"}

\* [\p{L}\p{N}] of WORD_RE
IsLetterOrDigit(c) == c \in LetterChars \cup DigitChars

\* [’'\-] of WORD_RE
IsWordJoiner(c) == c \in {"'", "-"}

\* extendedWordChars of the diff library's word tokenizer: a-zA-Z0-9_
IsTokenWordChar(c) == c \in LetterChars \cup DigitChars \cup {"_"}

\* [^\S\n\r]: white space that is no line break
IsBlank(c) == c \in {" ", "\t"}

Max(a, b) == IF a >= b THEN a ELSE b

Min(a, b) == IF a <= b THEN a ELSE b

RECURSIVE Flatten(_)
\* Array.prototype.join("") of an array of strings
Flatten(ss) == IF ss = <<>> THEN <<>> ELSE Head(ss) \o Flatten(Tail(ss))

(***************************************************************************)
(* The diff library: tokenizers.                                           *)
(***************************************************************************)
RECURSIVE RunLen(_, _, _)
\* length of the maximal run of characters of one class starting at text[i]
RunLen(text, i, blank) ==
  IF i > Len(text) THEN 0
  ELSE IF blank /\ IsBlank(text[i]) THEN 1 + RunLen(text, i + 1, blank)
  ELSE IF ~blank /\ IsTokenWordChar(text[i]) THEN 1 + RunLen(text, i + 1, blank)
  ELSE 0

RECURSIVE TokenizeWordsFrom(_, _)
TokenizeWordsFrom(text, i) ==
  IF i > Len(text) THEN <<>>
  ELSE LET c == text[i]
           n == IF c = NL THEN 1
                ELSE IF IsTokenWordChar(c) THEN RunLen(text, i, FALSE)
                ELSE IF IsBlank(c) THEN RunLen(text, i, TRUE)
                ELSE 1
       IN  <<SubSeq(text, i, i + n - 1)>> \o TokenizeWordsFrom(text, i + n)

\* wordsWithSpaceDiff.tokenize: value.match(/(\r?\n)|[word]+|[^\S\n\r]+|[^word]/ug)
TokenizeWords(text) == TokenizeWordsFrom(text, 1)

RECURSIVE LineEnd(_, _)
\* index of the last character of the line starting at text[i]
LineEnd(text, i) ==
  IF i >= Len(text) THEN Len(text)
  ELSE IF text[i] = NL THEN i
  ELSE LineEnd(text, i + 1)

RECURSIVE TokenizeLinesFrom(_, _)
TokenizeLinesFrom(text, i) ==
  IF i > Len(text) THEN <<>>
  ELSE LET e == LineEnd(text, i)
       IN  <<SubSeq(text, i, e)>> \o TokenizeLinesFrom(text, e + 1)

\* lineDiff.tokenize: every line keeps its terminating newline; no token
\* for the empty tail after a final newline
TokenizeLines(text) == TokenizeLinesFrom(text, 1)

(***************************************************************************)
(* The diff library: Myers O(ND) search (Diff.diff, execEditLength).       *)
(* Positions are the library's 0-based positions; tokens[p + 1] is the     *)
(* token at position p.                                                    *)
(***************************************************************************)
NoPath == [defined |-> FALSE, oldPos |-> -1, components |-> <<>>]

Component(n, a, r) == [count |-> n, added |-> a, removed |-> r]

\* Diff.addToPath
addToPath(path, added, removed, oldPosInc) ==
  LET cs == path.components
      n  == Len(cs)
  IN  IF n > 0 /\ cs[n].added = added /\ cs[n].removed = removed
      THEN [defined |-> TRUE, oldPos |-> path.oldPos + oldPosInc,
            components |-> [cs EXCEPT ![n].count = @ + 1]]
      ELSE [defined |-> TRUE, oldPos |-> path.oldPos + oldPosInc,
            components |-> Append(cs, Component(1, added, removed))]

RECURSIVE commonCount(_, _, _, _)
commonCount(newTokens, oldTokens, oldPos, newPos) ==
  IF /\ newPos + 1 < Len(newTokens)
     /\ oldPos + 1 < Len(oldTokens)
     /\ oldTokens[oldPos + 2] = newTokens[newPos + 2]
  THEN 1 + commonCount(newTokens, oldTokens, oldPos + 1, newPos + 1)
  ELSE 0

\* Diff.extractCommon: the path advanced along its diagonal
extractCommon(basePath, newTokens, oldTokens, diagonalPath) ==
  LET n == commonCount(newTokens, oldTokens, basePath.oldPos,
                       basePath.oldPos - diagonalPath)
  IN  [defined |-> TRUE, oldPos |-> basePath.oldPos + n,
       components |-> IF n > 0
                      THEN Append(basePath.components, Component(n, FALSE, FALSE))
                      ELSE basePath.components]

RECURSIVE buildValues(_, _, _, _, _)
\* buildValues: the change objects of a component list
buildValues(components, newTokens, oldTokens, newPos, oldPos) ==
  IF components = <<>> THEN <<>>
  ELSE LET c == Head(components)
       IN  IF ~c.removed
           THEN <<[value |-> Flatten(SubSeq(newTokens, newPos + 1, newPos + c.count)),
                   count |-> c.count, added |-> c.added, removed |-> FALSE]>>
                \o buildValues(Tail(components), newTokens, oldTokens,
                               newPos + c.count,
                               IF c.added THEN oldPos ELSE oldPos + c.count)
           ELSE <<[value |-> Flatten(SubSeq(oldTokens, oldPos + 1, oldPos + c.count)),
                   count |-> c.count, added |-> FALSE, removed |-> TRUE]>>
                \o buildValues(Tail(components), newTokens, oldTokens,
                               newPos, oldPos + c.count)

RECURSIVE execEditLength(_, _, _, _, _)
\* one iteration of the diagonal loop of execEditLength, then the rest of
\* the search; st = [bestPath, minDiagonalToConsider, maxDiagonalToConsider]
execEditLength(st, editLength, diagonalPath, newTokens, oldTokens) ==
  LET newLen == Len(newTokens)
      oldLen == Len(oldTokens)
  IN
  IF editLength > newLen + oldLen THEN <<>>
  ELSE IF diagonalPath > Min(st.maxDiagonalToConsider, editLength)
  THEN execEditLength(st, editLength + 1,
                      Max(st.minDiagonalToConsider, -(editLength + 1)),
                      newTokens, oldTokens)
  ELSE
    LET removePath == st.bestPath[diagonalPath - 1]
        addPath    == st.bestPath[diagonalPath + 1]
        cleared    == [st.bestPath EXCEPT ![diagonalPath - 1] = NoPath]
        addPathNewPos == addPath.oldPos - diagonalPath
        canAdd    == addPath.defined /\ 0 <= addPathNewPos /\ addPathNewPos < newLen
        canRemove == removePath.defined /\ removePath.oldPos + 1 < oldLen
    IN
    IF ~canAdd /\ ~canRemove
    THEN execEditLength([st EXCEPT !.bestPath = [cleared EXCEPT ![diagonalPath] = NoPath]],
                        editLength, diagonalPath + 2, newTokens, oldTokens)
    ELSE
      LET branch == IF ~canRemove \/ (canAdd /\ removePath.oldPos < addPath.oldPos)
                    THEN addToPath(addPath, TRUE, FALSE, 0)
                    ELSE addToPath(removePath, FALSE, TRUE, 1)
          basePath == extractCommon(branch, newTokens, oldTokens, diagonalPath)
          newPos   == basePath.oldPos - diagonalPath
      IN
      IF basePath.oldPos + 1 >= oldLen /\ newPos + 1 >= newLen
      THEN buildValues(basePath.components, newTokens, oldTokens, 0, 0)
      ELSE execEditLength(
             [bestPath |-> [cleared EXCEPT ![diagonalPath] = basePath],
              maxDiagonalToConsider |->
                IF basePath.oldPos + 1 >= oldLen
                THEN Min(st.maxDiagonalToConsider, diagonalPath - 1)
                ELSE st.maxDiagonalToConsider,
              minDiagonalToConsider |->
                IF newPos + 1 >= newLen
                THEN Max(st.minDiagonalToConsider, diagonalPath + 1)
                ELSE st.minDiagonalToConsider],
             editLength, diagonalPath + 2, newTokens, oldTokens)

\* Diff.diff on two token lists: seed with the common prefix (edit length
\* 0), then search edit lengths 1, 2, ...
diffTokens(oldTokens, newTokens) ==
  LET newLen == Len(newTokens)
      oldLen == Len(oldTokens)
      far    == newLen + oldLen + 2
      seed   == extractCommon([defined |-> TRUE, oldPos |-> -1, components |-> <<>>],
                              newTokens, oldTokens, 0)
  IN  IF seed.oldPos + 1 >= oldLen /\ seed.oldPos + 1 >= newLen
      THEN buildValues(seed.components, newTokens, oldTokens, 0, 0)
      ELSE execEditLength(
             [bestPath |-> [d \in (-far) .. far |-> IF d = 0 THEN seed ELSE NoPath],
              minDiagonalToConsider |-> -far,
              maxDiagonalToConsider |-> far],
             1, -1, newTokens, oldTokens)

\* diffWordsWithSpace(oldStr, newStr)
diffWordsWithSpace(oldStr, newStr) ==
  diffTokens(TokenizeWords(oldStr), TokenizeWords(newStr))

\* diffLines(oldStr, newStr)
diffLines(oldStr, newStr) ==
  diffTokens(TokenizeLines(oldStr), TokenizeLines(newStr))

(***************************************************************************)
(* createApp: text helpers.                                                *)
(***************************************************************************)
RECURSIVE replaceAll(_, _, _)
\* String.prototype.replaceAll(ch, replacement) for a one-character pattern
replaceAll(text, ch, replacement) ==
  IF text = <<>> THEN <<>>
  ELSE (IF Head(text) = ch THEN replacement ELSE <<Head(text)>>)
       \o replaceAll(Tail(text), ch, replacement)

\* fault variant: the ampersand replaced last, so the entities of the earlier
\* passes are escaped a second time
escapeHtml_ampersandLast(value) ==
  LET s1 == replaceAll(value, "<", <<"&", "l", "t", ";">>)
      s2 == replaceAll(s1, ">", <<"&", "g", "t", ";">>)
      s3 == replaceAll(s2, "\"", <<"&", "q", "u", "o", "t", ";">>)
      s4 == replaceAll(s3, "'", <<"&", "#", "3", "9", ";">>)
  IN  replaceAll(s4, "&", <<"&", "a", "m", "p", ";">>)

escapeHtml(value) ==
  LET s1 == replaceAll(value, "&", <<"&", "a", "m", "p", ";">>)
      s2 == replaceAll(s1, "<", <<"&", "l", "t", ";">>)
      s3 == replaceAll(s2, ">", <<"&", "g", "t", ";">>)
      s4 == replaceAll(s3, "\"", <<"&", "q", "u", "o", "t", ";">>)
  IN  replaceAll(s4, "'", <<"&", "#", "3", "9", ";">>)

RECURSIVE wordRunEnd(_, _)
\* index of the last character of [\p{L}\p{N}]+ matched from text[i]
wordRunEnd(text, i) ==
  IF i < Len(text) /\ IsLetterOrDigit(text[i + 1])
  THEN wordRunEnd(text, i + 1)
  ELSE i

RECURSIVE wordMatchEnd(_, _)
\* index of the last character of a WORD_RE match whose first run ends at
\* text[e]: (?:[’'\-][\p{L}\p{N}]+)* taken greedily
wordMatchEnd(text, e) ==
  IF e + 2 <= Len(text) /\ IsWordJoiner(text[e + 1]) /\ IsLetterOrDigit(text[e + 2])
  THEN wordMatchEnd(text, wordRunEnd(text, e + 2))
  ELSE e

RECURSIVE matchWords(_, _)
\* number of matches of the global WORD_RE in text from index i on
matchWords(text, i) ==
  IF i > Len(text) THEN 0
  ELSE IF IsLetterOrDigit(text[i])
  THEN 1 + matchWords(text, wordMatchEnd(text, wordRunEnd(text, i)) + 1)
  ELSE matchWords(text, i + 1)

\* fault variant: /[\p{L}\p{N}]+/gu, a joiner splitting a word in two
countWords_plainRuns(value) ==
  Cardinality({i \in 1 .. Len(value) :
                 /\ IsLetterOrDigit(value[i])
                 /\ (i = 1 \/ ~IsLetterOrDigit(value[i - 1]))})

countWords(value) == IF value = <<>> THEN 0 ELSE matchWords(value, 1)

RECURSIVE splitFrom(_, _, _)
splitFrom(text, i, cur) ==
  IF i > Len(text) THEN <<cur>>
  ELSE IF text[i] = NL THEN <<cur>> \o splitFrom(text, i + 1, <<>>)
  ELSE splitFrom(text, i + 1, Append(cur, text[i]))

\* String(value ?? "").split("\n")
splitLinesPreserve(value) == splitFrom(value, 1, <<>>)

\* fault variant: the trailing empty piece counted as a line
countLogicalLines_phantomLine(value) ==
  IF value = <<>> THEN 0 ELSE Len(splitLinesPreserve(value))

countLogicalLines(value) ==
  IF value = <<>> THEN 0
  ELSE LET lines == splitLinesPreserve(value)
       IN  IF Len(lines) > 1 /\ lines[Len(lines)] = <<>>
           THEN Len(lines) - 1
           ELSE Len(lines)

(***************************************************************************)
(* createApp: renderers.                                                   *)
(***************************************************************************)
SpanOpen(cls) ==
  IF cls = "" THEN "<span>" ELSE "<span class=\"" \o cls \o "\">"

SpanClose == "</span>"

LineOpen(cls) ==
  IF cls = "" THEN "<div class=\"diff-line\">"
  ELSE "<div class=\"diff-line " \o cls \o "\">"

DivClose == "</div>"

LinesOpen == "<div class=\"diff-lines\">"

Span(cls, body) == <<SpanOpen(cls)>> \o body \o <<SpanClose>>

LineBlock(cls, body) == <<LineOpen(cls)>> \o body \o <<DivClose>>

\* " ".repeat(n)
repeatSpace(n) == [i \in 1 .. n |-> " "]

partClass(part) ==
  IF part.added THEN "diff-added" ELSE IF part.removed THEN "diff-removed" ELSE ""

RECURSIVE buildDiffHtml(_)
buildDiffHtml(parts) ==
  IF parts = <<>> THEN <<>>
  ELSE Span(partClass(Head(parts)), escapeHtml(Head(parts).value))
       \o buildDiffHtml(Tail(parts))

\* fault variant: the placeholder sized by the escaped value
sideBySideLeft_escapedLength(part) ==
  IF part.added THEN Span("diff-empty", repeatSpace(Len(escapeHtml(part.value))))
  ELSE IF part.removed THEN Span("diff-removed", escapeHtml(part.value))
  ELSE Span("", escapeHtml(part.value))

\* what buildSideBySide pushes to left for one part
sideBySideLeft(part) ==
  IF part.added THEN Span("diff-empty", repeatSpace(Len(part.value)))
  ELSE IF part.removed THEN Span("diff-removed", escapeHtml(part.value))
  ELSE Span("", escapeHtml(part.value))

\* what buildSideBySide pushes to right for one part
sideBySideRight(part) ==
  IF part.added THEN Span("diff-added", escapeHtml(part.value))
  ELSE IF part.removed THEN Span("diff-empty", repeatSpace(Len(part.value)))
  ELSE Span("", escapeHtml(part.value))

RECURSIVE buildSideBySide(_)
buildSideBySide(parts) ==
  IF parts = <<>> THEN [left |-> <<>>, right |-> <<>>]
  ELSE LET rest == buildSideBySide(Tail(parts))
       IN  [left  |-> sideBySideLeft(Head(parts)) \o rest.left,
            right |-> sideBySideRight(Head(parts)) \o rest.right]

\* what buildLineSideBySide pushes to leftLines for one line of a part
lineLeft(part, line) ==
  IF part.added THEN LineBlock("diff-empty", <<>>)
  ELSE IF part.removed THEN LineBlock("diff-removed", escapeHtml(line))
  ELSE LineBlock("", escapeHtml(line))

\* what buildLineSideBySide pushes to rightLines for one line of a part
lineRight(part, line) ==
  IF part.added THEN LineBlock("diff-added", escapeHtml(line))
  ELSE IF part.removed THEN LineBlock("diff-empty", <<>>)
  ELSE LineBlock("", escapeHtml(line))

\* what buildLineInline pushes for one line of a part
lineInline(part, line) == LineBlock(partClass(part), escapeHtml(line))

RECURSIVE linesLeft(_, _)
linesLeft(part, lines) ==
  IF lines = <<>> THEN <<>>
  ELSE lineLeft(part, Head(lines)) \o linesLeft(part, Tail(lines))

RECURSIVE linesRight(_, _)
linesRight(part, lines) ==
  IF lines = <<>> THEN <<>>
  ELSE lineRight(part, Head(lines)) \o linesRight(part, Tail(lines))

RECURSIVE linesInline(_, _)
linesInline(part, lines) ==
  IF lines = <<>> THEN <<>>
  ELSE lineInline(part, Head(lines)) \o linesInline(part, Tail(lines))

RECURSIVE lineSideBySideBlocks(_)
\* leftLines and rightLines of buildLineSideBySide, joined
lineSideBySideBlocks(parts) ==
  IF parts = <<>> THEN [left |-> <<>>, right |-> <<>>]
  ELSE LET rest  == lineSideBySideBlocks(Tail(parts))
           lines == splitLinesPreserve(Head(parts).value)
       IN  [left  |-> linesLeft(Head(parts), lines) \o rest.left,
            right |-> linesRight(Head(parts), lines) \o rest.right]

buildLineSideBySide(parts) ==
  LET blocks == lineSideBySideBlocks(parts)
  IN  [left  |-> <<LinesOpen>> \o blocks.left \o <<DivClose>>,
       right |-> <<LinesOpen>> \o blocks.right \o <<DivClose>>]

RECURSIVE lineInlineBlocks(_)
lineInlineBlocks(parts) ==
  IF parts = <<>> THEN <<>>
  ELSE linesInline(Head(parts), splitLinesPreserve(Head(parts).value))
       \o lineInlineBlocks(Tail(parts))

\* fault variant: an empty script rendered as one empty line
buildLineInline_emptyLine(parts) ==
  IF parts = <<>> THEN <<LinesOpen>> \o LineBlock("", <<>>) \o <<DivClose>>
  ELSE <<LinesOpen>> \o lineInlineBlocks(parts) \o <<DivClose>>

buildLineInline(parts) == <<LinesOpen>> \o lineInlineBlocks(parts) \o <<DivClose>>

(***************************************************************************)
(* createApp: structured tree differ.  A JSON value is                     *)
(* [t, s, kids]: t its type, s the text of a scalar, kids the members of an *)
(* array (in index order) or of an object (in Object.keys order).          *)
(***************************************************************************)
Undefined == [t |-> "undefined", s |-> "", kids |-> <<>>]

Null == [t |-> "null", s |-> "", kids |-> <<>>]

Num(n) == [t |-> "num", s |-> n, kids |-> <<>>]

Str(x) == [t |-> "str", s |-> x, kids |-> <<>>]

Arr(elems) ==
  [t |-> "arr", s |-> "", kids |-> [i \in 1 .. Len(elems) |-> [k |-> "", val |-> elems[i]]]]

Obj(members) == [t |-> "obj", s |-> "", kids |-> members]

Member(key, v) == [k |-> key, val |-> v]

\* a property every object inherits from Object.prototype
InheritedFunction == [t |-> "function", s |-> "Object.prototype", kids |-> <<>>]

\* names of Object.prototype members within the modelled key space
InheritedKeys == {"toString"}

\* a[i] of an array, i counted from 0
getIndex(a, i) == IF i < Len(a.kids) THEN a.kids[i + 1].val ELSE Undefined

\* Object.keys(a)
objectKeys(a) == [i \in 1 .. Len(a.kids) |-> a.kids[i].k]

\* a[key] of an object: the own property, else the inherited one
getKey(a, key) ==
  IF \E i \in 1 .. Len(a.kids) : a.kids[i].k = key
  THEN a.kids[CHOOSE i \in 1 .. Len(a.kids) : a.kids[i].k = key].val
  ELSE IF key \in InheritedKeys THEN InheritedFunction
  ELSE Undefined

\* fault variant: an array or an object recorded as null
orNull_scalarsOnly(x) == IF x.t \in {"undefined", "null", "arr", "obj"} THEN Null ELSE x

\* x ?? null
orNull(x) == IF x.t \in {"undefined", "null"} THEN Null ELSE x

\* fault variant: a != b, which converts a numeric string to a number
strictNotEqual_loose(a, b) ==
  IF a.t \in {"num", "str"} /\ b.t \in {"num", "str"} THEN a.s # b.s
  ELSE a.t # b.t \/ a.s # b.s

\* a !== b on values that are no arrays and no objects
strictNotEqual(a, b) == a.t # b.t \/ a.s # b.s

\* Boolean(x)
isTruthy(x) ==
  CASE x.t \in {"undefined", "null"} -> FALSE
    [] x.t = "num" -> x.s # "0"
    [] x.t = "str" -> x.s # ""
    [] x.t = "bool" -> x.s = "true"
    [] OTHER -> TRUE

\* fault variant: the two sides of a record exchanged
Change_sidesExchanged(pathKey, type, l, r) ==
  [path |-> pathKey, type |-> type, left |-> r, right |-> l]

Change(pathKey, type, l, r) == [path |-> pathKey, type |-> type, left |-> l, right |-> r]

\* fault variant: the keys of the left object only
unionKeys_leftOnly(a, b) == objectKeys(a)

\* [...new Set([...Object.keys(a), ...Object.keys(b)])]
unionKeys(a, b) ==
  LET ka == objectKeys(a)
      kb == objectKeys(b)
  IN  ka \o SelectSeq(kb, LAMBDA key : \A i \in 1 .. Len(ka) : ka[i] # key)

\* fault variant: indices written from 1
indexPath_fromOne(pathKey, i) == pathKey \o "[" \o ToString(i + 1) \o "]"

indexPath(pathKey, i) == pathKey \o "[" \o ToString(i) \o "]"

\* fault variant: the separator written before a root-level key too
keyPath_alwaysDotted(pathKey, key) == pathKey \o "." \o key

keyPath(pathKey, key) == IF pathKey # "" THEN pathKey \o "." \o key ELSE key

RECURSIVE walk(_, _, _)
RECURSIVE walkIndices(_, _, _, _, _)
RECURSIVE walkKeys(_, _, _, _)

\* for (let i = 0; i < maxLen; i += 1) walk(`${pathKey}[${i}]`, a[i], b[i])
walkIndices(pathKey, a, b, i, maxLen) ==
  IF i >= maxLen THEN <<>>
  ELSE walk(indexPath(pathKey, i), getIndex(a, i), getIndex(b, i))
       \o walkIndices(pathKey, a, b, i + 1, maxLen)

\* for (const key of keys) walk(pathKey ? `${pathKey}.${key}` : key, a[key], b[key])
walkKeys(pathKey, a, b, keys) ==
  IF keys = <<>> THEN <<>>
  ELSE walk(keyPath(pathKey, Head(keys)), getKey(a, Head(keys)), getKey(b, Head(keys)))
       \o walkKeys(pathKey, a, b, Tail(keys))

\* diffStructured.walk: the records it pushes, in order
walk(pathKey, a, b) ==
  IF a.t = "undefined" /\ b.t = "undefined" THEN <<>>
  ELSE IF a.t = "undefined" THEN <<Change(pathKey, "added", Null, orNull(b))>>
  ELSE IF b.t = "undefined" THEN <<Change(pathKey, "removed", orNull(a), Null)>>
  ELSE IF a.t = "arr" \/ b.t = "arr"
  THEN IF a.t # "arr" \/ b.t # "arr"
       THEN <<Change(pathKey, "changed", orNull(a), orNull(b))>>
       ELSE walkIndices(pathKey, a, b, 0, Max(Len(a.kids), Len(b.kids)))
  ELSE IF a.t = "obj" \/ b.t = "obj"
  THEN IF a.t # "obj" \/ b.t # "obj"
       THEN <<Change(pathKey, "changed", orNull(a), orNull(b))>>
       ELSE walkKeys(pathKey, a, b, unionKeys(a, b))
  ELSE IF strictNotEqual(a, b)
  THEN <<Change(pathKey, "changed", orNull(a), orNull(b))>>
  ELSE <<>>

diffStructured(left, right) == walk("", left, right)

(***************************************************************************)
(* createApp: the excerpts handed to the summarizer.                       *)
(***************************************************************************)
\* \s of collapseWhitespace
IsWhitespace(c) == c \in {" ", "\t", NL, "\r"}

\* String.prototype.toLowerCase, character by character
toLowerCase(text) ==
  [i \in 1 .. Len(text) |->
     IF \E n \in 1 .. 26 : UpperChars[n] = text[i]
     THEN LowerChars[CHOOSE n \in 1 .. 26 : UpperChars[n] = text[i]]
     ELSE text[i]]

RECURSIVE collapseRuns(_, _)
\* replace(/\s+/g, " "): inRun tells that the previous character was white
collapseRuns(text, inRun) ==
  IF text = <<>> THEN <<>>
  ELSE IF IsWhitespace(Head(text))
  THEN (IF inRun THEN <<>> ELSE <<" ">>) \o collapseRuns(Tail(text), TRUE)
  ELSE <<Head(text)>> \o collapseRuns(Tail(text), FALSE)

\* String.prototype.trim of a text whose white space is single blanks
trim(text) ==
  LET from == IF text # <<>> /\ Head(text) = " " THEN 2 ELSE 1
      to   == IF text # <<>> /\ text[Len(text)] = " " THEN Len(text) - 1 ELSE Len(text)
  IN  SubSeq(text, from, to)

collapseWhitespace(value) == trim(collapseRuns(value, FALSE))

\* the one character U+2026 (horizontal ellipsis) truncateText appends
Ellipsis == "U+2026"

truncateText(value, maxLen) ==
  IF Len(value) <= maxLen THEN value
  ELSE Append(SubSeq(value, 1, maxLen - 1), Ellipsis)

\* defaults of collectDiffSnippets
MaxSnippets == 12

MaxSnippetLen == 220

\* the least length of a cleaned value that is collected
MinSnippetLen == 4

\* seen, added and removed of collectDiffSnippets, and whether the loop was
\* left through break
NoSnippets == [seen |-> {}, added |-> <<>>, removed |-> <<>>, stop |-> FALSE]

\* the body of the for loop of collectDiffSnippets on one part
collectStep(part, acc, maxSnippets, maxLen, minLen) ==
  LET bucket  == IF part.added THEN acc.added
                 ELSE IF part.removed THEN acc.removed ELSE <<>>
      cleaned == collapseWhitespace(part.value)
      snippet == truncateText(cleaned, maxLen)
      key     == toLowerCase(snippet)
  IN  IF ~part.added /\ ~part.removed THEN acc
      ELSE IF Len(bucket) >= maxSnippets THEN acc
      ELSE IF cleaned = <<>> \/ Len(cleaned) < minLen THEN acc
      ELSE IF key \in acc.seen THEN acc
      ELSE LET next == [seen |-> acc.seen \cup {key},
                        added |-> IF part.added THEN Append(acc.added, snippet)
                                  ELSE acc.added,
                        removed |-> IF part.added THEN acc.removed
                                    ELSE Append(acc.removed, snippet),
                        stop |-> FALSE]
           IN  [next EXCEPT !.stop = Len(next.added) >= maxSnippets
                                     /\ Len(next.removed) >= maxSnippets]

RECURSIVE collectFrom(_, _, _, _, _)
\* the for loop of collectDiffSnippets over the remaining parts
collectFrom(parts, acc, maxSnippets, maxLen, minLen) ==
  IF parts = <<>> THEN acc
  ELSE LET next == collectStep(Head(parts), acc, maxSnippets, maxLen, minLen)
       IN  IF next.stop THEN next
           ELSE collectFrom(Tail(parts), next, maxSnippets, maxLen, minLen)

collectDiffSnippets(parts, maxSnippets, maxLen) ==
  LET out == collectFrom(parts, NoSnippets, maxSnippets, maxLen, MinSnippetLen)
  IN  [added |-> out.added, removed |-> out.removed]

(***************************************************************************)
(* POST /api/compare: the computation after both extractions resolved.     *)
(***************************************************************************)
\* fault variant: the two texts exchanged
computeDiffParts_exchanged(mode, leftText, rightText) ==
  IF mode = "lines"
  THEN diffLines(rightText, leftText)
  ELSE diffWordsWithSpace(rightText, leftText)

\* fault variant: segments of blanks only dropped from the edit script
computeDiffParts_blanksDropped(mode, leftText, rightText) ==
  SelectSeq(IF mode = "lines"
            THEN diffLines(leftText, rightText)
            ELSE diffWordsWithSpace(leftText, rightText),
            LAMBDA part : \E i \in 1 .. Len(part.value) : ~IsBlank(part.value[i]))

\* fault variant: the two units taken for each other
computeDiffParts_unitsInverted(mode, leftText, rightText) ==
  IF mode = "lines"
  THEN diffWordsWithSpace(leftText, rightText)
  ELSE diffLines(leftText, rightText)

\* fault variant: the unit ignored, lines always
computeDiffParts_linesAlways(mode, leftText, rightText) ==
  diffLines(leftText, rightText)

\* diffParts of the handler
computeDiffParts(mode, leftText, rightText) ==
  IF mode = "lines"
  THEN diffLines(leftText, rightText)
  ELSE diffWordsWithSpace(leftText, rightText)

RECURSIVE sumUnits(_, _, _)
\* diffParts.filter(kind).reduce((total, part) => total + count(part.value), 0)
sumUnits(parts, mode, wantAdded) ==
  IF parts = <<>> THEN 0
  ELSE LET part == Head(parts)
           hit  == IF wantAdded THEN part.added ELSE part.removed
           n    == IF mode = "lines"
                   THEN countLogicalLines(part.value)
                   ELSE countWords(part.value)
       IN  (IF hit THEN n ELSE 0) + sumUnits(Tail(parts), mode, wantAdded)

\* fault variant: every segment that is not removed counted as added
additions_notRemoved(parts, mode) ==
  sumUnits([i \in 1 .. Len(parts) |-> [parts[i] EXCEPT !.added = ~parts[i].removed]],
           mode, TRUE)

additions(parts, mode) == sumUnits(parts, mode, TRUE)

removals(parts, mode) == sumUnits(parts, mode, FALSE)

\* structuredDiff of the handler
computeStructuredDiff(left, right) ==
  IF isTruthy(left.structuredOutput) /\ isTruthy(right.structuredOutput)
  THEN diffStructured(left.structuredOutput, right.structuredOutput)
  ELSE <<>>

\* the length structuredDiff.changes is cut to
MaxChanges == 200

\* value || null
orNullIfFalsy(x) == IF isTruthy(x) THEN x ELSE Null

\* the body of res.json
compareResponse(mode, left, right, parts, structuredDiff, insights) ==
  [status |-> 200,
   summary |-> [additions |-> additions(parts, mode),
                removals |-> removals(parts, mode),
                totalParts |-> Len(parts),
                diffMode |-> mode,
                unit |-> IF mode = "lines" THEN "lines" ELSE "words"],
   inlineHtml |-> IF mode = "lines" THEN buildLineInline(parts) ELSE buildDiffHtml(parts),
   sideBySideHtml |-> IF mode = "lines" THEN buildLineSideBySide(parts)
                      ELSE buildSideBySide(parts),
   extracted |-> [left |-> left.text, right |-> right.text],
   insights |-> insights,
   structuredOutput |-> [left |-> orNullIfFalsy(left.structuredOutput),
                         right |-> orNullIfFalsy(right.structuredOutput)],
   structuredDiff |-> [total |-> Len(structuredDiff),
                       changes |-> SubSeq(structuredDiff, 1,
                                          Min(MaxChanges, Len(structuredDiff)))]]

(***************************************************************************)
(* createApp: errors, validation, extraction mode, summarizer.             *)
(***************************************************************************)
\* new HttpError(status, message)
HttpError(status, message) ==
  [class |-> "HttpError", status |-> status, hasStatusCode |-> FALSE,
   statusCode |-> 0, message |-> message]

\* an error of the Pulse SDK or of the runtime: class PulseError or Error,
\* with or without a numeric statusCode
UpstreamError(class, hasStatusCode, statusCode, message) ==
  [class |-> class, status |-> 0, hasStatusCode |-> hasStatusCode,
   statusCode |-> statusCode, message |-> message]

Returned(v) == [thrown |-> FALSE, value |-> v, error |-> HttpError(0, "")]

\* the value of an awaited call that threw: none
NoValue == [text |-> <<>>, structuredOutput |-> Null]

Thrown(e) == [thrown |-> TRUE, value |-> NoValue, error |-> e]

TrueText == <<"t", "r", "u", "e">>

\* Fault variant: the schema is passed on unchecked.
parseStructuredOutput_unchecked(req) ==
  IF toLowerCase(req.structured_enabled) # TrueText THEN Returned("null")
  ELSE Returned(req.structured_schema)

\* parseStructuredOutput: the schema is given by its kind
parseStructuredOutput(req) ==
  IF toLowerCase(req.structured_enabled) # TrueText THEN Returned("null")
  ELSE IF req.structured_schema \in {"absent", "empty"}
  THEN Thrown(HttpError(400, "Structured extraction enabled, but no schema was provided."))
  ELSE IF req.structured_schema = "notJson"
  THEN Thrown(HttpError(400, "Structured schema must be valid JSON."))
  ELSE IF req.structured_schema \in {"null", "scalar"}
  THEN Thrown(HttpError(400, "Structured schema must be a JSON object."))
  ELSE Returned(req.structured_schema)

getFileSizeBytes(file) == IF ~file.present THEN 0 ELSE file.size

\* Fault variant: a file of exactly the threshold size counts as small.
isLargeFile_aboveOnly(file, config) ==
  getFileSizeBytes(file) > config.largeFileThresholdBytes

isLargeFile(file, config) == getFileSizeBytes(file) >= config.largeFileThresholdBytes

\* createPulseClient: an injected factory, else a client when the key is set
createPulseClient(config) ==
  IF config.pulse = "override" THEN Returned("client")
  ELSE IF config.pulse = "none"
  THEN Thrown(HttpError(500, "Missing PULSE_API_KEY environment variable"))
  ELSE Returned("client")

\* Fault variant: the loop of pollForResult goes on whatever the time is.
withinDeadline_always(time, deadline) == TRUE

\* the while condition of pollForResult: Date.now() < deadline
withinDeadline(time, deadline) == time < deadline

\* a || b on messages
orDefault(message, default) == IF message # "" THEN message ELSE default

\* Fault variant: the caught error is thrown on as it is.
extractDocumentCatch_rethrown(error) == error

\* the catch of extractDocument: what it throws for a caught error
extractDocumentCatch(error) ==
  IF error.class = "HttpError" THEN error
  ELSE IF error.class = "PulseError"
  THEN LET statusCode == IF error.hasStatusCode THEN error.statusCode ELSE 502
       IN  HttpError(IF statusCode >= 500 THEN 502 ELSE statusCode,
                     orDefault(error.message, "Pulse extraction failed"))
  ELSE IF error.hasStatusCode
  THEN HttpError(IF error.statusCode >= 500 THEN 502 ELSE error.statusCode,
                 orDefault(error.message, "Upstream request failed"))
  ELSE error

\* the catch of the handler: res.status(status).json({ error: message })
handlerCatch(error) ==
  [status |-> IF error.class = "HttpError" THEN error.status ELSE 500,
   error |-> orDefault(error.message, "Unexpected error occurred")]

\* the insight object of the repository's test
InsightObject == Obj(<<Member("confidence", Str("High"))>>)

\* JSON.parse(text) for the texts of the modelled replies; Undefined stands
\* for the SyntaxError it throws
jsonParse(text) ==
  CASE text = "null" -> Null
    [] text = "1" -> Num("1")
    [] text = "[]" -> Arr(<<>>)
    [] text = "{\"confidence\":\"High\"}" -> InsightObject
    [] OTHER -> Undefined

\* the body of an OK reply of the summarizer: its output_parsed (Undefined
\* when it has none) and the value of extractOpenAIOutputText
summarizerPayload(reply) ==
  CASE reply = "ok" -> [output_parsed |-> InsightObject, text |-> ""]
    [] reply = "parsedArray" -> [output_parsed |-> Arr(<<>>), text |-> ""]
    [] reply = "parsedNull" -> [output_parsed |-> Null, text |-> ""]
    [] reply = "parsedString" -> [output_parsed |-> Str("1"), text |-> ""]
    [] reply = "textObject" ->
         [output_parsed |-> Undefined, text |-> "{\"confidence\":\"High\"}"]
    [] reply = "textNull" -> [output_parsed |-> Undefined, text |-> "null"]
    [] reply = "textNumber" -> [output_parsed |-> Undefined, text |-> "1"]
    [] reply = "unparsableText" -> [output_parsed |-> Undefined, text |-> "oops"]
    [] OTHER -> [output_parsed |-> Undefined, text |-> ""]

\* typeof x === "object"
typeofObject(x) == x.t \in {"null", "arr", "obj"}

\* typeof payload?.output_parsed === "object" ? payload.output_parsed
\*                                             : JSON.parse(text)
parsedOf(payload) ==
  IF typeofObject(payload.output_parsed) THEN payload.output_parsed
  ELSE jsonParse(payload.text)

\* Fault variant: an error of the request to the summarizer is not caught.
generateInsightsWithOpenAI_uncaught(summarizer) ==
  IF ~summarizer.enabled \/ ~summarizer.apiKey \/ ~summarizer.template
     \/ parsedOf(summarizerPayload(summarizer.reply)) # Undefined
  THEN Returned([enabled |-> summarizer.enabled /\ summarizer.apiKey /\ summarizer.template,
                 provider |-> "openai", error |-> "",
                 result |-> IF summarizer.enabled /\ summarizer.apiKey /\ summarizer.template
                            THEN parsedOf(summarizerPayload(summarizer.reply))
                            ELSE Undefined])
  ELSE Thrown(UpstreamError("Error", FALSE, 0, summarizer.message))

\* generateInsightsWithOpenAI, the summarizer given by its configuration and
\* by what the request to it ends with
generateInsightsWithOpenAI(summarizer) ==
  LET disabled(message) ==
        Returned([enabled |-> FALSE, provider |-> "openai", error |-> message,
                  result |-> Undefined])
  IN  IF ~summarizer.enabled THEN disabled("Insights disabled by OPENAI_INSIGHTS_ENABLED.")
      ELSE IF ~summarizer.apiKey THEN disabled("Missing OPENAI_API_KEY.")
      ELSE IF ~summarizer.template THEN disabled("Missing insights prompt template file.")
      ELSE CASE summarizer.reply = "timeout" -> disabled("Insights timed out.")
             [] summarizer.reply = "networkError" ->
                  disabled(orDefault(summarizer.message, "OpenAI insights failed."))
             [] summarizer.reply = "httpError" ->
                  disabled(orDefault(summarizer.message, "OpenAI request failed"))
             [] summarizer.reply \in {"notJson", "unparsableText"} ->
                  disabled("Unexpected end of JSON input")
             [] OTHER ->
                  LET parsed == parsedOf(summarizerPayload(summarizer.reply))
                  IN  IF parsed = Undefined THEN disabled("Unexpected end of JSON input")
                      ELSE Returned([enabled |-> TRUE, provider |-> "openai",
                                     error |-> "", result |-> parsed])

\* whether generateInsightsWithOpenAI sends a request
summarizerCalled(summarizer) ==
  summarizer.enabled /\ summarizer.apiKey /\ summarizer.template

\* buildInsightsInput: the excerpts and the counts of the digest
buildInsightsInput(mode, parts, structuredDiff) ==
  [meta |-> [diff_mode |-> mode,
             additions |-> additions(parts, mode),
             removals |-> removals(parts, mode),
             diff_chunks |-> Len(parts),
             structured_changes |-> Len(structuredDiff)],
   excerpts |-> collectDiffSnippets(parts, MaxSnippets, MaxSnippetLen)]

(***************************************************************************)
(* Input space: the extraction results of one request.                     *)
(***************************************************************************)
\* the texts of the repository's tests and of the specification's scenarios
HelloWorld == <<"h", "e", "l", "l", "o", " ", "w", "o", "r", "l", "d">>

HelloBraveWorld ==
  <<"h", "e", "l", "l", "o", " ", "b", "r", "a", "v", "e", " ", "w", "o", "r", "l", "d">>

LinesAB == <<"a", NL, "b", NL>>

LinesAC == <<"a", NL, "c", NL>>

ItIs == <<"i", "t", " ", "i", "s">>

ItIsnt ==
  <<"i", "t", " ", "i", "s", "n", "'", "t", " ",
    "s", "t", "a", "t", "e", "-", "o", "f", "-", "t", "h", "e", "-", "a", "r", "t">>

\* one word in two spellings that differ in case only
WordUpper == <<"W", "O", "R", "D">>

WordLower == <<"w", "o", "r", "d">>

ScenarioPairs ==
  {<<HelloWorld, HelloBraveWorld>>, <<HelloBraveWorld, HelloWorld>>,
   <<LinesAB, LinesAC>>, <<ItIs, ItIsnt>>, <<ItIsnt, ItIs>>,
   <<HelloWorld, HelloWorld>>, <<LinesAB, HelloWorld>>,
   <<<<"a", " ", "a">>, <<"a", " ", "a", " ", "a">>>>,
   <<<<"a", " ", "b">>, <<"a", " ", "b", " ", "b">>>>,
   <<<<"a", "a", " ", "b">>, <<"a", "a", " ", "a", " ", "b">>>>,
   <<WordUpper, WordLower>>, <<WordLower, WordUpper>>,
   <<<<"x", " ", "y">>, WordLower \o <<" ", "x", " ">> \o WordUpper \o <<" ", "y">>>>,
   <<WordLower \o <<" ", "x", " ">> \o WordUpper \o <<" ", "y">>, <<"x", " ", "y">>>>,
   <<WordLower \o <<" ", "x">>, <<"x", " ">> \o WordLower>>}

RECURSIVE TextsOver(_, _)
\* the texts of exactly n characters over an alphabet
TextsOver(alphabet, n) ==
  IF n = 0 THEN {<<>>}
  ELSE {Append(t, c) : t \in TextsOver(alphabet, n - 1), c \in alphabet}

\* plain prose: a word character, a blank, a line break
PlainAlphabet == {"a", " ", NL}

PlainTexts == UNION {TextsOver(PlainAlphabet, n) : n \in 0 .. MaxLen}

\* characters with a meaning in markup or in the word pattern
MarkupAlphabet == {"a", "&", "<", ">", "\"", "'", "-"}

MarkupPairs ==
  UNION {TextsOver(MarkupAlphabet, nm[1]) \X TextsOver(MarkupAlphabet, nm[2]) :
           nm \in {x \in (0 .. MaxMarkupLen) \X (0 .. MaxMarkupLen) :
                      x[1] + x[2] <= MaxMarkupLen}}

TextPairs == (PlainTexts \X PlainTexts) \cup MarkupPairs \cup ScenarioPairs

\* structured records: scalars, arrays and objects of scalars, and one
\* more level of nesting around those
Scalars == {Num("1"), Num("2"), Str("1"), Null}

ArraysOver(base) ==
  {Arr(elems) : elems \in UNION {[1 .. n -> base] : n \in 0 .. MaxArrayLen}}

OptionalMember(key, v) == IF v = Undefined THEN <<>> ELSE <<Member(key, v)>>

ObjectsOver(base) ==
  {Obj(OptionalMember("k", a) \o OptionalMember("toString", b)) :
     a \in base \cup {Undefined}, b \in base \cup {Undefined}}

FlatRecords == Scalars \cup ArraysOver(Scalars) \cup ObjectsOver(Scalars)

StructuredRecords ==
  FlatRecords
    \cup {Arr(<<x>>) : x \in FlatRecords \ Scalars}
    \cup {Obj(<<Member("k", x)>>) : x \in FlatRecords \ Scalars}

\* the structured records of the repository's test and a pair with every
\* kind of difference
InvoiceLeft == Obj(<<Member("invoice_number", Str("1")), Member("total", Num("10"))>>)

InvoiceRight == Obj(<<Member("invoice_number", Str("2")), Member("total", Num("10"))>>)

ContractLeft ==
  Obj(<<Member("parties", Arr(<<Str("1"), Str("2")>>)),
        Member("term", Obj(<<Member("end", Str("1")), Member("k", Null)>>)),
        Member("total", Num("1")),
        Member("law", Str("1"))>>)

ContractRight ==
  Obj(<<Member("total", Num("2")),
        Member("parties", Arr(<<Str("1")>>)),
        Member("law", Arr(<<Str("1")>>)),
        Member("toString", Num("1")),
        Member("payment", Obj(<<Member("k", Arr(<<Num("1")>>))>>))>>)

\* the left invoice with its keys in the other order
InvoiceReordered == Obj(<<Member("total", Num("10")), Member("invoice_number", Str("1"))>>)

\* arrays whose lengths differ by more than one, at the root and below a key
LongItems == Arr(<<Num("1"), Num("2"), Str("1")>>)

ShortItems == Arr(<<Num("2")>>)

ScenarioRecordPairs ==
  {<<InvoiceLeft, InvoiceRight>>, <<ContractLeft, ContractRight>>,
   <<ContractRight, ContractLeft>>, <<ContractLeft, ContractLeft>>,
   <<InvoiceLeft, InvoiceReordered>>,
   <<LongItems, ShortItems>>, <<ShortItems, LongItems>>,
   <<Obj(<<Member("items", LongItems)>>), Obj(<<Member("items", ShortItems)>>)>>,
   <<Obj(<<Member("items", Arr(<<ShortItems>>))>>),
     Obj(<<Member("items", Arr(<<LongItems, Null>>))>>)>>}

\* longest upload, in bytes
MaxFileSize == 2

\* largest largeFileThresholdBytes
MaxThreshold == 2

\* largest pollTimeoutMs
MaxPollTimeout == 2

Sides == {"left", "right"}

OtherSide(s) == IF s = "left" THEN "right" ELSE "left"

NoFile == [present |-> FALSE, size |-> 0]

File(n) == [present |-> TRUE, size |-> n]

FileOf(req, s) == IF s = "left" THEN req.leftFile ELSE req.rightFile

Files == {NoFile} \cup {File(n) : n \in 0 .. MaxFileSize}

\* structured_enabled and the kind of structured_schema of a request
StructuredFields ==
  {<<<<>>, "absent">>, <<<<>>, "notJson">>,
   <<TrueText, "absent">>, <<TrueText, "notJson">>, <<TrueText, "scalar">>,
   <<TrueText, "object">>, <<<<"T", "R", "U", "E">>, "object">>,
   <<<<"T", "r", "u", "e">>, "empty">>}

Requests ==
  {[leftFile |-> l, rightFile |-> r, structured_enabled |-> f[1], structured_schema |-> f[2]] :
     l \in Files, r \in Files, f \in StructuredFields}

\* the request of a comparison that reached its extraction results
UploadedRequest ==
  [leftFile |-> File(1), rightFile |-> File(1),
   structured_enabled |-> <<>>, structured_schema |-> "absent"]

Summarizer(enabled, apiKey, template, reply, message) ==
  [enabled |-> enabled, apiKey |-> apiKey, template |-> template,
   reply |-> reply, message |-> message]

\* openaiConfig of the repository's tests: { enabled: false }
SummarizerOff == Summarizer(FALSE, FALSE, TRUE, "ok", "")

SummarizerOk == Summarizer(TRUE, TRUE, TRUE, "ok", "")

\* every way the summarizer can be configured and can answer
Summarizers ==
  {SummarizerOff, SummarizerOk,
   Summarizer(TRUE, FALSE, TRUE, "ok", ""),
   Summarizer(TRUE, TRUE, FALSE, "ok", ""),
   Summarizer(TRUE, TRUE, TRUE, "httpError", "rate limited"),
   Summarizer(TRUE, TRUE, TRUE, "httpError", ""),
   Summarizer(TRUE, TRUE, TRUE, "notJson", ""),
   Summarizer(TRUE, TRUE, TRUE, "unparsableText", ""),
   Summarizer(TRUE, TRUE, TRUE, "parsedArray", ""),
   Summarizer(TRUE, TRUE, TRUE, "parsedNull", ""),
   Summarizer(TRUE, TRUE, TRUE, "parsedString", ""),
   Summarizer(TRUE, TRUE, TRUE, "textObject", ""),
   Summarizer(TRUE, TRUE, TRUE, "textNull", ""),
   Summarizer(TRUE, TRUE, TRUE, "textNumber", ""),
   Summarizer(TRUE, TRUE, TRUE, "networkError", "fetch failed"),
   Summarizer(TRUE, TRUE, TRUE, "networkError", ""),
   Summarizer(TRUE, TRUE, TRUE, "timeout", "")}

Config(pulse, threshold, pollTimeoutMs) ==
  [pulse |-> pulse, largeFileThresholdBytes |-> threshold, pollTimeoutMs |-> pollTimeoutMs]

Configs ==
  {Config(pulse, threshold, timeout) :
     pulse \in {"override", "apiKey", "none"},
     threshold \in 1 .. MaxThreshold,
     timeout \in 0 .. MaxPollTimeout}

\* what extract, extractAsync and getJob can throw
UpstreamErrors ==
  {UpstreamError("PulseError", TRUE, 400, "Unsupported file type"),
   UpstreamError("PulseError", TRUE, 500, "Internal error"),
   UpstreamError("PulseError", TRUE, 503, ""),
   UpstreamError("PulseError", FALSE, 0, "Connection reset"),
   UpstreamError("Error", TRUE, 404, ""),
   UpstreamError("Error", TRUE, 502, "Bad gateway"),
   UpstreamError("Error", FALSE, 0, "boom"),
   UpstreamError("Error", FALSE, 0, "")}

\* the texts an extraction can return
ReplyTexts == {<<>>, <<"a">>}

Result(text) == [text |-> text, structuredOutput |-> Null]

JobReply(status, hasResult, error) ==
  [status |-> status, hasResult |-> hasResult, error |-> error]

\* what getJob can return
JobReplies ==
  {JobReply("pending", FALSE, ""), JobReply("processing", FALSE, ""),
   JobReply("completed", TRUE, ""), JobReply("completed", FALSE, ""),
   JobReply("failed", FALSE, ""), JobReply("failed", FALSE, "Out of credits"),
   JobReply("failed", TRUE, ""), JobReply("canceled", FALSE, "")}

\* milliseconds one turn of the polling loop can take
PollSteps == {1, 2}

\* no error
NoError == HttpError(0, "")

\* no getJob payload
NoReply == JobReply("", FALSE, "")

\* one extractDocument call: where it is, the deadline of its polling, the
\* error its catch received, the getJob payload that ended its polling, and
\* what it settled with

Idle ==
  [pc |-> "idle", deadline |-> 0, caught |-> NoError, reply |-> NoReply,
   outcome |-> Returned(Result(<<>>))]

Done(text) ==
  [pc |-> "done", deadline |-> 0, caught |-> NoError, reply |-> NoReply,
   outcome |-> Returned(Result(text))]

NoCalls ==
  [extract |-> [s \in Sides |-> 0], extractAsync |-> [s \in Sides |-> 0],
   getJob |-> [s \in Sides |-> 0], summarizer |-> 0]

\* collectDiffSnippets not running
NoCollector ==
  [maxSnippets |-> MaxSnippets, maxLen |-> MaxSnippetLen, scanned |-> 0,
   acc |-> NoSnippets]

NoInsightsInput ==
  [meta |-> [diff_mode |-> "", additions |-> 0, removals |-> 0,
             diff_chunks |-> 0, structured_changes |-> 0],
   excerpts |-> [added |-> <<>>, removed |-> <<>>]]

\* both extractions of a synchronous request resolved with the two results
Extracted(left, right, summarizer) ==
  /\ pc = "extracted"
  /\ leftResult = left
  /\ rightResult = right
  /\ request = UploadedRequest
  /\ env = [config |-> Config("override", MaxThreshold, 0), summarizer |-> summarizer]
  /\ extraction = [s \in Sides |-> Done(IF s = "left" THEN left.text ELSE right.text)]
  /\ calls = [NoCalls EXCEPT !.extract = [s \in Sides |-> 1]]
  /\ now = 0
  /\ diffParts = <<>>
  /\ insightsInput = NoInsightsInput
  /\ collector = NoCollector
  /\ response = [status |-> 0]

Init ==
  /\ diffMode \in {"words", "lines"}
  /\ \E p \in TextPairs :
       Extracted([text |-> p[1], structuredOutput |-> Null],
                 [text |-> p[2], structuredOutput |-> Null], SummarizerOff)

\* the handler from the resolution of Promise.all to res.json
Compare ==
  /\ pc = "extracted"
  /\ LET parts == computeDiffParts(diffMode, leftResult.text, rightResult.text)
         structuredDiff == computeStructuredDiff(leftResult, rightResult)
         insights == generateInsightsWithOpenAI(env.summarizer)
     IN  /\ diffParts' = parts
         /\ insightsInput' = buildInsightsInput(diffMode, parts, structuredDiff)
         /\ calls' = [calls EXCEPT !.summarizer =
                        IF summarizerCalled(env.summarizer) THEN @ + 1 ELSE @]
         /\ IF insights.thrown
            THEN /\ pc' = "failed"
                 /\ response' = handlerCatch(insights.error)
            ELSE /\ pc' = "responded"
                 /\ response' = compareResponse(diffMode, leftResult, rightResult,
                                                parts, structuredDiff, insights.value)
  /\ UNCHANGED <<diffMode, leftResult, rightResult, request, env, extraction, now,
                 collector>>

Next == Compare

Spec == Init /\ [][Next]_vars

\* requests whose extractions carry structured output
InitStructured ==
  /\ diffMode = "words"
  /\ \E p \in (StructuredRecords \X StructuredRecords) \cup ScenarioRecordPairs :
       Extracted([text |-> <<>>, structuredOutput |-> p[1]],
                 [text |-> <<>>, structuredOutput |-> p[2]], SummarizerOff)

SpecStructured == InitStructured /\ [][Next]_vars

\* object keys that hold the separators of a path, and the empty key
SeparatorKeys == {"a.b", "a[0]", ""}

\* what stands below a key: a scalar, an object with the key b, an array
KeyedValues ==
  {Num("1"), Num("2"), Obj(<<Member("b", Num("1"))>>), Obj(<<Member("b", Num("2"))>>),
   Arr(<<Num("1")>>), Arr(<<Num("2")>>)}

\* JSON objects with the key a and one key out of SeparatorKeys
KeyedRecords ==
  {Obj(<<Member("a", x), Member(key, y)>>) :
     x \in KeyedValues, y \in KeyedValues, key \in SeparatorKeys}

\* requests whose extractions carry structured output with such keys
InitKeys ==
  /\ diffMode = "words"
  /\ \E l \in KeyedRecords, r \in KeyedRecords :
       Extracted([text |-> <<>>, structuredOutput |-> l],
                 [text |-> <<>>, structuredOutput |-> r], SummarizerOff)

SpecKeys == InitKeys /\ [][Next]_vars

(***************************************************************************)
(* POST /api/compare: the whole request.                                   *)
(***************************************************************************)
\* res.status(status).json({ error }) from the catch of the handler
Fail(error) ==
  /\ pc' = "failed"
  /\ response' = handlerCatch(error)

\* Promise.all of the two extractDocument calls: it rejects with the first
\* rejection and resolves once both sides have resolved
SettleAll(s, outcome) ==
  IF pc = "extracting" /\ outcome.thrown
  THEN Fail(outcome.error) /\ UNCHANGED <<leftResult, rightResult>>
  ELSE IF pc = "extracting" /\ extraction[OtherSide(s)].pc = "done"
  THEN /\ pc' = "extracted"
       /\ leftResult' = IF s = "left" THEN outcome.value
                        ELSE extraction["left"].outcome.value
       /\ rightResult' = IF s = "right" THEN outcome.value
                         ELSE extraction["right"].outcome.value
       /\ UNCHANGED response
  ELSE UNCHANGED <<pc, response, leftResult, rightResult>>

\* extractDocument of side s ends: with the returned result, or in its catch
\* with the error thrown inside its try
SettleAfter(s, outcome, reply) ==
  /\ extraction' = [extraction EXCEPT
                      ![s].pc = IF outcome.thrown THEN "failed" ELSE "done",
                      ![s].caught = IF outcome.thrown THEN outcome.error ELSE NoError,
                      ![s].reply = reply,
                      ![s].outcome = IF outcome.thrown
                                     THEN Thrown(extractDocumentCatch(outcome.error))
                                     ELSE outcome]
  /\ LET settled == extraction'[s].outcome IN SettleAll(s, settled)

\* extractDocument of side s ends on something else than a getJob payload
Settle(s, outcome) == SettleAfter(s, outcome, NoReply)

\* the handler up to await Promise.all: validation, then both
\* extractDocument calls up to their first await
Receive ==
  /\ pc = "received"
  /\ LET parsed == parseStructuredOutput(request)
         client == createPulseClient(env.config)
     IN  IF ~request.leftFile.present \/ ~request.rightFile.present
         THEN /\ Fail(HttpError(400, "Please upload both documents."))
              /\ UNCHANGED <<extraction, calls>>
         ELSE IF parsed.thrown
         THEN Fail(parsed.error) /\ UNCHANGED <<extraction, calls>>
         ELSE IF client.thrown
         THEN /\ Fail(client.error)
              /\ extraction' = [s \in Sides |->
                                  [extraction[s] EXCEPT !.pc = "failed",
                                                        !.outcome = Thrown(client.error)]]
              /\ UNCHANGED calls
         ELSE /\ pc' = "extracting"
              /\ extraction' =
                   [s \in Sides |->
                      [extraction[s] EXCEPT
                         !.pc = IF isLargeFile(FileOf(request, s), env.config)
                                THEN "enqueue" ELSE "extract"]]
              /\ calls' =
                   [calls EXCEPT
                      !.extract = [s \in Sides |->
                                     IF isLargeFile(FileOf(request, s), env.config)
                                     THEN 0 ELSE 1],
                      !.extractAsync = [s \in Sides |->
                                          IF isLargeFile(FileOf(request, s), env.config)
                                          THEN 1 ELSE 0]]
              /\ UNCHANGED response
  /\ UNCHANGED <<diffMode, leftResult, rightResult, diffParts, request, env, now,
                 insightsInput, collector>>

\* client.extract of side s returns a payload or throws
ExtractReturns(s) ==
  /\ extraction[s].pc = "extract"
  /\ \E outcome \in {Returned(Result(t)) : t \in ReplyTexts}
                      \cup {Thrown(e) : e \in UpstreamErrors} :
       Settle(s, outcome)
  /\ UNCHANGED <<diffMode, diffParts, request, env, calls, now, insightsInput, collector>>

\* client.extractAsync of side s returns the job, and pollForResult sets its
\* deadline, or throws
ExtractAsyncReturns(s) ==
  /\ extraction[s].pc = "enqueue"
  /\ \/ /\ extraction' = [extraction EXCEPT
                            ![s].pc = "polling",
                            ![s].deadline = now + env.config.pollTimeoutMs]
        /\ UNCHANGED <<pc, response, leftResult, rightResult>>
     \/ \E e \in UpstreamErrors : Settle(s, Thrown(e))
  /\ UNCHANGED <<diffMode, diffParts, request, env, calls, now, insightsInput, collector>>

\* one turn of the while loop of pollForResult before the deadline: getJob,
\* then return, throw or sleep
Poll(s) ==
  /\ extraction[s].pc = "polling"
  /\ withinDeadline(now, extraction[s].deadline)
  /\ calls' = [calls EXCEPT !.getJob[s] = @ + 1]
  /\ \/ \E reply \in JobReplies :
          IF reply.status = "completed" \/ reply.hasResult
          THEN /\ \E t \in ReplyTexts : SettleAfter(s, Returned(Result(t)), reply)
               /\ UNCHANGED now
          ELSE IF reply.status \in {"failed", "canceled"}
          THEN /\ SettleAfter(s, Thrown(HttpError(502, orDefault(reply.error,
                                                                 "Pulse extraction failed"))),
                              reply)
               /\ UNCHANGED now
          ELSE /\ \E d \in PollSteps : now' = now + d
               /\ UNCHANGED <<extraction, pc, response, leftResult, rightResult>>
     \/ \E e \in UpstreamErrors :
          Settle(s, Thrown(e)) /\ UNCHANGED now
  /\ UNCHANGED <<diffMode, diffParts, request, env, insightsInput, collector>>

\* the while condition of pollForResult fails: the deadline has passed
PollTimeout(s) ==
  /\ extraction[s].pc = "polling"
  /\ ~withinDeadline(now, extraction[s].deadline)
  /\ Settle(s, Thrown(HttpError(504, "Pulse extraction timed out while polling")))
  /\ UNCHANGED <<diffMode, diffParts, request, env, calls, now, insightsInput, collector>>

InitRequest ==
  /\ pc = "received"
  /\ diffMode = "words"
  /\ request \in Requests
  /\ env \in [config : Configs, summarizer : {SummarizerOff}]
  /\ leftResult = Result(<<>>)
  /\ rightResult = Result(<<>>)
  /\ extraction = [s \in Sides |-> Idle]
  /\ calls = NoCalls
  /\ now = 0
  /\ diffParts = <<>>
  /\ insightsInput = NoInsightsInput
  /\ collector = NoCollector
  /\ response = [status |-> 0]

NextRequest ==
  \/ Receive
  \/ \E s \in Sides : ExtractReturns(s)
  \/ \E s \in Sides : ExtractAsyncReturns(s)
  \/ \E s \in Sides : Poll(s)
  \/ \E s \in Sides : PollTimeout(s)
  \/ Compare

SpecRequest == InitRequest /\ [][NextRequest]_vars

\* requests that pass validation, with a Pulse client
InitPolling ==
  /\ InitRequest
  /\ request.leftFile.present
  /\ request.rightFile.present
  /\ request.structured_enabled = <<>>
  /\ request.structured_schema = "absent"
  /\ env.config.pulse = "override"

\* every getJob call returns and every sleep ends
SpecPolling ==
  /\ InitPolling
  /\ [][NextRequest]_vars
  /\ \A s \in Sides : WF_vars(Poll(s)) /\ WF_vars(PollTimeout(s))

\* what a structured_schema that is valid JSON parses to
SchemaKinds == {"null", "scalar", "array", "object"}

\* requests with both files, structured extraction enabled and a schema
\* that is valid JSON
SchemaRequests ==
  {[leftFile |-> File(1), rightFile |-> File(n),
    structured_enabled |-> TrueText, structured_schema |-> kind] :
     n \in 1 .. MaxFileSize, kind \in SchemaKinds}

InitSchema ==
  /\ pc = "received"
  /\ diffMode = "words"
  /\ request \in SchemaRequests
  /\ env \in [config : {c \in Configs : c.pulse = "override"}, summarizer : {SummarizerOff}]
  /\ leftResult = Result(<<>>)
  /\ rightResult = Result(<<>>)
  /\ extraction = [s \in Sides |-> Idle]
  /\ calls = NoCalls
  /\ now = 0
  /\ diffParts = <<>>
  /\ insightsInput = NoInsightsInput
  /\ collector = NoCollector
  /\ response = [status |-> 0]

SpecSchema == InitSchema /\ [][NextRequest]_vars

\* comparisons of a few texts under every summarizer
InitInsights ==
  /\ diffMode \in {"words", "lines"}
  /\ \E p \in ScenarioPairs, summarizer \in Summarizers :
       Extracted([text |-> p[1], structuredOutput |-> Null],
                 [text |-> p[2], structuredOutput |-> Null], summarizer)

SpecInsights == InitInsights /\ [][Next]_vars

(***************************************************************************)
(* collectDiffSnippets, one turn of its loop at a time.                    *)
(***************************************************************************)
\* most segments of a script given to the collector
MaxScriptLen == 4

\* largest maxSnippets given to the collector
MaxSnippetBound == 2

Segment(kind, value) ==
  [value |-> value, added |-> kind = "Inserted", removed |-> kind = "Removed"]

OtherWord == <<"o", "t", "h", "e", "r">>

\* segments that yield a snippet, one whose cleaned value is too short, and
\* an unchanged one
Segments ==
  {Segment(kind, value) : kind \in {"Inserted", "Removed"},
                          value \in {WordLower, WordUpper, OtherWord}}
    \cup {Segment("Inserted", <<"a", " ", "b">>), Segment("Unchanged", WordLower)}

Scripts == UNION {[1 .. n -> Segments] : n \in 0 .. MaxScriptLen}

InitCollector ==
  /\ pc = "collecting"
  /\ diffMode = "words"
  /\ diffParts \in Scripts
  /\ collector \in {[maxSnippets |-> n, maxLen |-> MaxSnippetLen, scanned |-> 0,
                      acc |-> NoSnippets] : n \in 0 .. MaxSnippetBound}
  /\ request = UploadedRequest
  /\ env = [config |-> Config("override", MaxThreshold, 0), summarizer |-> SummarizerOff]
  /\ leftResult = Result(<<>>)
  /\ rightResult = Result(<<>>)
  /\ extraction = [s \in Sides |-> Done(<<>>)]
  /\ calls = [NoCalls EXCEPT !.extract = [s \in Sides |-> 1]]
  /\ now = 0
  /\ insightsInput = NoInsightsInput
  /\ response = [status |-> 0]

\* one turn of the for loop: the next part is taken
Scan ==
  /\ pc = "collecting"
  /\ collector.scanned < Len(diffParts)
  /\ ~collector.acc.stop
  /\ collector' =
       [collector EXCEPT
          !.scanned = @ + 1,
          !.acc = collectStep(diffParts[collector.scanned + 1], collector.acc,
                              collector.maxSnippets, collector.maxLen, MinSnippetLen)]
  /\ UNCHANGED <<pc, diffMode, leftResult, rightResult, diffParts, response,
                 request, env, extraction, calls, now, insightsInput>>

\* the loop is over or was left: return { added, removed }
ReturnSnippets ==
  /\ pc = "collecting"
  /\ collector.scanned = Len(diffParts) \/ collector.acc.stop
  /\ pc' = "collected"
  /\ insightsInput' =
       [insightsInput EXCEPT !.excerpts = [added |-> collector.acc.added,
                                           removed |-> collector.acc.removed]]
  /\ UNCHANGED <<diffMode, leftResult, rightResult, diffParts, response,
                 request, env, extraction, calls, now, collector>>

NextCollector == Scan \/ ReturnSnippets

SpecCollector == InitCollector /\ [][NextCollector]_vars

(***************************************************************************)
(* Vocabulary of the properties.                                           *)
(***************************************************************************)
Responded == pc = "responded"

Kind(part) ==
  IF part.added /\ ~part.removed THEN "Inserted"
  ELSE IF part.removed /\ ~part.added THEN "Removed"
  ELSE IF ~part.added /\ ~part.removed THEN "Unchanged"
  ELSE "Invalid"

RECURSIVE Projection(_, _)
\* the values of the segments whose kind is in kinds, concatenated in order
Projection(parts, kinds) ==
  IF parts = <<>> THEN <<>>
  ELSE (IF Kind(Head(parts)) \in kinds THEN Head(parts).value ELSE <<>>)
       \o Projection(Tail(parts), kinds)

KindCount(parts, kind) == Cardinality({i \in 1 .. Len(parts) : Kind(parts[i]) = kind})

\* C1: in both modes the Unchanged and Removed values concatenate to left
\* exactly and the Unchanged and Inserted values concatenate to right exactly
C1_Reconstruction ==
  Responded =>
    /\ \A i \in 1 .. Len(diffParts) : Kind(diffParts[i]) # "Invalid"
    /\ Projection(diffParts, {"Unchanged", "Removed"}) = leftResult.text
    /\ Projection(diffParts, {"Unchanged", "Inserted"}) = rightResult.text

C1_Witness ==
  /\ Responded
  /\ leftResult.text # rightResult.text
  /\ KindCount(diffParts, "Unchanged") > 0
  /\ KindCount(diffParts, "Removed") > 0
  /\ KindCount(diffParts, "Inserted") > 0

\* C2: no two adjacent segments of an edit script have the same kind
C2_Maximality ==
  Responded =>
    \A i \in 1 .. Len(diffParts) - 1 : Kind(diffParts[i]) # Kind(diffParts[i + 1])

C2_Witness ==
  /\ Responded
  /\ Len(diffParts) >= 4
  /\ \E i \in 1 .. Len(diffParts) - 1 :
       Kind(diffParts[i]) = "Removed" /\ Kind(diffParts[i + 1]) = "Inserted"

\* C3: a text diffed against itself gives one Unchanged segment (none when
\* the text is empty) and a summary of 0 additions and 0 removals
C3_SelfDiff ==
  (Responded /\ leftResult.text = rightResult.text) =>
    /\ leftResult.text # <<>> =>
         /\ Len(diffParts) = 1
         /\ Kind(diffParts[1]) = "Unchanged"
    /\ leftResult.text = <<>> => Len(diffParts) = 0
    /\ response.summary.totalParts = Len(diffParts)
    /\ response.summary.additions = 0
    /\ response.summary.removals = 0

C3_Witness ==
  /\ Responded
  /\ leftResult.text = rightResult.text
  /\ Len(leftResult.text) >= 3
  /\ diffMode = "lines"
  /\ Len(diffParts) = 1

(***************************************************************************)
(* Reading a rendered stream back: the blocks it consists of.              *)
(***************************************************************************)
SpanTags ==
  {"<span>", "<span class=\"diff-added\">", "<span class=\"diff-removed\">",
   "<span class=\"diff-empty\">"}

LineTags ==
  {"<div class=\"diff-line\">", "<div class=\"diff-line diff-added\">",
   "<div class=\"diff-line diff-removed\">", "<div class=\"diff-line diff-empty\">"}

\* the tag a block of a given segment kind opens with
SpanTagOf(kind) ==
  CASE kind = "Inserted" -> "<span class=\"diff-added\">"
    [] kind = "Removed" -> "<span class=\"diff-removed\">"
    [] kind = "Placeholder" -> "<span class=\"diff-empty\">"
    [] OTHER -> "<span>"

LineTagOf(kind) ==
  CASE kind = "Inserted" -> "<div class=\"diff-line diff-added\">"
    [] kind = "Removed" -> "<div class=\"diff-line diff-removed\">"
    [] kind = "Placeholder" -> "<div class=\"diff-line diff-empty\">"
    [] OTHER -> "<div class=\"diff-line\">"

RECURSIVE CloseAt(_, _, _)
\* index of the first piece equal to close at or after i, 0 when there is none
CloseAt(pieces, i, close) ==
  IF i > Len(pieces) THEN 0
  ELSE IF pieces[i] = close THEN i
  ELSE CloseAt(pieces, i + 1, close)

RECURSIVE Blocks(_, _, _)
\* the blocks <open> body <close> a stream is made of; a piece outside any
\* block is reported as a block tagged "stray"
Blocks(pieces, opens, close) ==
  IF pieces = <<>> THEN <<>>
  ELSE LET e == CloseAt(pieces, 2, close)
       IN  IF Head(pieces) \in opens /\ e > 0
           THEN <<[tag |-> Head(pieces), body |-> SubSeq(pieces, 2, e - 1)]>>
                \o Blocks(SubSeq(pieces, e + 1, Len(pieces)), opens, close)
           ELSE <<[tag |-> "stray", body |-> <<Head(pieces)>>]>>
                \o Blocks(Tail(pieces), opens, close)

Spans(stream) == Blocks(stream, SpanTags, "</span>")

\* the line-blocks inside the <div class="diff-lines"> wrapper
Rows(stream) ==
  IF Len(stream) >= 2 /\ stream[1] = "<div class=\"diff-lines\">"
     /\ stream[Len(stream)] = "</div>"
  THEN Blocks(SubSeq(stream, 2, Len(stream) - 1), LineTags, "</div>")
  ELSE <<[tag |-> "stray", body |-> stream]>>

NewlineCount(text) == Cardinality({i \in 1 .. Len(text) : text[i] = NL})

RECURSIVE RowOwners(_, _)
\* for every rendered row of a script, the index of the segment it shows:
\* a segment owns one row per line its value splits into
RowOwners(parts, k) ==
  IF k > Len(parts) THEN <<>>
  ELSE [i \in 1 .. NewlineCount(parts[k].value) + 1 |-> k] \o RowOwners(parts, k + 1)

Spaces(body) == \A i \in 1 .. Len(body) : body[i] = " "

LeftKind(kind) == IF kind = "Inserted" THEN "Placeholder" ELSE kind

RightKind(kind) == IF kind = "Removed" THEN "Placeholder" ELSE kind

\* C4 (lines mode): the left and the right stream hold one line-block per
\* line of every segment, row by row of matching kinds
C4_LineRowsAligned ==
  (Responded /\ diffMode = "lines") =>
    LET L == Rows(response.sideBySideHtml.left)
        R == Rows(response.sideBySideHtml.right)
        owner == RowOwners(diffParts, 1)
    IN  /\ Len(L) = Len(owner)
        /\ Len(R) = Len(owner)
        /\ \A j \in 1 .. Len(owner) :
             LET kind == Kind(diffParts[owner[j]])
             IN  /\ L[j].tag = LineTagOf(LeftKind(kind))
                 /\ R[j].tag = LineTagOf(RightKind(kind))
                 /\ kind = "Inserted" => L[j].body = <<>>
                 /\ kind = "Removed" => R[j].body = <<>>

\* C4 (words mode): opposite each Inserted or Removed segment stands a
\* placeholder of as many spaces as the segment's value has characters
C4_WordPlaceholders ==
  (Responded /\ diffMode = "words") =>
    LET L == Spans(response.sideBySideHtml.left)
        R == Spans(response.sideBySideHtml.right)
    IN  /\ Len(L) = Len(diffParts)
        /\ Len(R) = Len(diffParts)
        /\ \A k \in 1 .. Len(diffParts) :
             LET kind == Kind(diffParts[k])
             IN  /\ L[k].tag = SpanTagOf(LeftKind(kind))
                 /\ R[k].tag = SpanTagOf(RightKind(kind))
                 /\ kind = "Inserted" =>
                      Spaces(L[k].body) /\ Len(L[k].body) = Len(diffParts[k].value)
                 /\ kind = "Removed" =>
                      Spaces(R[k].body) /\ Len(R[k].body) = Len(diffParts[k].value)

\* C4: the side-by-side output is aligned segment by segment in both modes
C4_SideBySideAligned == C4_LineRowsAligned /\ C4_WordPlaceholders

C4_Witness ==
  /\ Responded
  /\ diffMode = "lines"
  /\ \E k \in 1 .. Len(diffParts) :
       Kind(diffParts[k]) = "Inserted" /\ NewlineCount(diffParts[k].value) >= 2
  /\ KindCount(diffParts, "Removed") > 0
  /\ Len(Rows(response.sideBySideHtml.left)) >= 4

(***************************************************************************)
(* Escaping.                                                               *)
(***************************************************************************)
\* a character that must not reach the output raw, with its entity
Entity(c) ==
  CASE c = "&" -> <<"&", "a", "m", "p", ";">>
    [] c = "<" -> <<"&", "l", "t", ";">>
    [] c = ">" -> <<"&", "g", "t", ";">>
    [] c = "\"" -> <<"&", "q", "u", "o", "t", ";">>
    [] c = "'" -> <<"&", "#", "3", "9", ";">>

SpecialChars == {"&", "<", ">", "\"", "'"}

\* the entity begins at body[i]
EntityAt(body, i, c) ==
  /\ i + Len(Entity(c)) - 1 <= Len(body)
  /\ SubSeq(body, i, i + Len(Entity(c)) - 1) = Entity(c)

\* no special character stands raw in body
NoRawSpecial(body) ==
  \A i \in 1 .. Len(body) :
    /\ body[i] \in {"<", ">", "\"", "'"} => FALSE
    /\ body[i] = "&" => \E c \in SpecialChars : EntityAt(body, i, c)

RECURSIVE Unescape(_)
\* what a markup view shows for body
Unescape(body) ==
  IF body = <<>> THEN <<>>
  ELSE IF Head(body) = "&" /\ \E c \in SpecialChars : EntityAt(body, 1, c)
  THEN LET c == CHOOSE c \in SpecialChars : EntityAt(body, 1, c)
       IN  <<c>> \o Unescape(SubSeq(body, Len(Entity(c)) + 1, Len(body)))
  ELSE <<Head(body)>> \o Unescape(Tail(body))

RECURSIVE JoinLines(_)
\* lines.join("\n")
JoinLines(lines) ==
  IF lines = <<>> THEN <<>>
  ELSE IF Len(lines) = 1 THEN lines[1]
  ELSE lines[1] \o <<NL>> \o JoinLines(Tail(lines))

\* span k of a words-mode stream shows the value of segment k, escaped
SpanShows(spans, k) ==
  /\ NoRawSpecial(spans[k].body)
  /\ Unescape(spans[k].body) = diffParts[k].value

\* the rows of segment k of a lines-mode stream show its value, escaped
RowsShow(rows, owner, k) ==
  LET mine == SelectSeq([j \in 1 .. Len(owner) |-> j], LAMBDA j : owner[j] = k)
  IN  /\ \A i \in 1 .. Len(mine) : NoRawSpecial(rows[mine[i]].body)
      /\ JoinLines([i \in 1 .. Len(mine) |-> Unescape(rows[mine[i]].body)])
           = diffParts[k].value

NoStray(blocks) == \A i \in 1 .. Len(blocks) : blocks[i].tag # "stray"

\* C7: in the inline and the side-by-side output of both modes every
\* character of the text among & < > " ' appears as its entity only, each
\* escaped once, and all markup is the renderers' own tags
C7_Escaped ==
  Responded =>
    IF diffMode = "lines"
    THEN LET I == Rows(response.inlineHtml)
             L == Rows(response.sideBySideHtml.left)
             R == Rows(response.sideBySideHtml.right)
             owner == RowOwners(diffParts, 1)
         IN  /\ NoStray(I) /\ NoStray(L) /\ NoStray(R)
             /\ Len(I) = Len(owner) /\ Len(L) = Len(owner) /\ Len(R) = Len(owner)
             /\ \A k \in 1 .. Len(diffParts) :
                  /\ RowsShow(I, owner, k)
                  /\ Kind(diffParts[k]) # "Inserted" => RowsShow(L, owner, k)
                  /\ Kind(diffParts[k]) # "Removed" => RowsShow(R, owner, k)
    ELSE LET I == Spans(response.inlineHtml)
             L == Spans(response.sideBySideHtml.left)
             R == Spans(response.sideBySideHtml.right)
         IN  /\ NoStray(I) /\ NoStray(L) /\ NoStray(R)
             /\ Len(I) = Len(diffParts) /\ Len(L) = Len(diffParts)
             /\ Len(R) = Len(diffParts)
             /\ \A k \in 1 .. Len(diffParts) :
                  /\ SpanShows(I, k)
                  /\ Kind(diffParts[k]) # "Inserted" => SpanShows(L, k)
                  /\ Kind(diffParts[k]) # "Removed" => SpanShows(R, k)

C7_Witness ==
  /\ Responded
  /\ \E i \in 1 .. Len(rightResult.text) : rightResult.text[i] = "&"
  /\ \E i \in 1 .. Len(rightResult.text) : rightResult.text[i] \in {"<", "'"}
  /\ \E i \in 1 .. Len(leftResult.text) : leftResult.text[i] \in {">", "\""}
  /\ KindCount(diffParts, "Inserted") > 0


(***************************************************************************)
(* Summary counts.                                                         *)
(***************************************************************************)
\* the logical lines of a value: one more than its newlines, a final
\* newline opening no further line; none for the empty value
LogicalLines(value) ==
  IF value = <<>> THEN 0
  ELSE NewlineCount(value) + 1 - (IF value[Len(value)] = NL THEN 1 ELSE 0)

\* a word begins at value[i]: a letter or digit that neither continues a
\* run of letters and digits nor is joined to one by a single ' or -
WordBeginsAt(value, i) ==
  /\ IsLetterOrDigit(value[i])
  /\ i > 1 => ~IsLetterOrDigit(value[i - 1])
  /\ i > 2 => ~(value[i - 1] \in {"'", "-"} /\ IsLetterOrDigit(value[i - 2]))

Words(value) == Cardinality({i \in 1 .. Len(value) : WordBeginsAt(value, i)})

RECURSIVE SumLines(_, _)
SumLines(parts, kind) ==
  IF parts = <<>> THEN 0
  ELSE (IF Kind(Head(parts)) = kind THEN LogicalLines(Head(parts).value) ELSE 0)
       + SumLines(Tail(parts), kind)

RECURSIVE SumWords(_, _)
SumWords(parts, kind) ==
  IF parts = <<>> THEN 0
  ELSE (IF Kind(Head(parts)) = kind THEN Words(Head(parts).value) ELSE 0)
       + SumWords(Tail(parts), kind)

\* C8: in lines mode additions and removals are the logical lines of the
\* Inserted and of the Removed segments; "a\nb\n" against "a\nc\n" gives 1
\* and 1, unit lines
C8_LineCounts ==
  (Responded /\ diffMode = "lines") =>
    /\ response.summary.additions = SumLines(diffParts, "Inserted")
    /\ response.summary.removals = SumLines(diffParts, "Removed")
    /\ response.summary.unit = "lines"
    /\ (leftResult.text = LinesAB /\ rightResult.text = LinesAC) =>
         response.summary.additions = 1 /\ response.summary.removals = 1

C8_Witness ==
  /\ Responded
  /\ diffMode = "lines"
  /\ leftResult.text = LinesAB
  /\ rightResult.text = LinesAC
  /\ response.summary.additions = 1
  /\ \E k \in 1 .. Len(diffParts) :
       Kind(diffParts[k]) = "Inserted" /\ diffParts[k].value = <<"c", NL>>

\* C9: in words mode additions and removals are the words of the Inserted
\* and of the Removed segments, a word joined by single apostrophes or
\* hyphens counting once and punctuation or white space counting nothing
C9_WordCounts ==
  (Responded /\ diffMode = "words") =>
    /\ response.summary.additions = SumWords(diffParts, "Inserted")
    /\ response.summary.removals = SumWords(diffParts, "Removed")
    /\ response.summary.unit = "words"
    /\ (leftResult.text = ItIs /\ rightResult.text = ItIsnt) =>
         response.summary.additions = 2 /\ response.summary.removals = 1

C9_Witness ==
  /\ Responded
  /\ diffMode = "words"
  /\ leftResult.text = ItIs
  /\ rightResult.text = ItIsnt
  /\ response.summary.additions = 2
  /\ \E k \in 1 .. Len(diffParts) :
       /\ Kind(diffParts[k]) = "Inserted"
       /\ \E i \in 1 .. Len(diffParts[k].value) : diffParts[k].value[i] = "'"
       /\ \E i \in 1 .. Len(diffParts[k].value) : diffParts[k].value[i] = "-"

(***************************************************************************)
(* Scenario A.                                                             *)
(***************************************************************************)
IsWord(token) ==
  token # <<>> /\ \A i \in 1 .. Len(token) : IsLetterOrDigit(token[i])

IsOneBlank(token) == Len(token) = 1 /\ IsBlank(token[1])

\* the ways right is left with one word and one blank put in between two
\* of left's words: <<tokens before, the two added tokens, tokens after>>
WordInsertions(left, right) ==
  LET lt == TokenizeWords(left)
      rt == TokenizeWords(right)
  IN  {<<i, j>> \in (1 .. Len(lt) - 1) \X {1, 2} :
         /\ Len(rt) = Len(lt) + 2
         /\ SubSeq(rt, 1, i) = SubSeq(lt, 1, i)
         /\ SubSeq(rt, i + 3, Len(rt)) = SubSeq(lt, i + 1, Len(lt))
         /\ IsWord(rt[i + j]) /\ IsOneBlank(rt[i + 3 - j])
         /\ \E a \in 1 .. i : IsWord(lt[a])
         /\ \E b \in i + 1 .. Len(lt) : IsWord(lt[b])}

\* C10: in words mode, one word put with its blank between two words of
\* left gives exactly one Inserted segment, of that word and one blank,
\* no Removed segment, additions 1 and removals 0; "hello world" against
\* "hello brave world" inserts "brave "
C10_OneWordInserted ==
  (Responded /\ diffMode = "words"
     /\ WordInsertions(leftResult.text, rightResult.text) # {}) =>
    /\ KindCount(diffParts, "Inserted") = 1
    /\ KindCount(diffParts, "Removed") = 0
    /\ \A k \in 1 .. Len(diffParts) :
         Kind(diffParts[k]) = "Inserted" =>
           /\ Len(TokenizeWords(diffParts[k].value)) = 2
           /\ \E t \in 1 .. 2 :
                /\ IsWord(TokenizeWords(diffParts[k].value)[t])
                /\ IsOneBlank(TokenizeWords(diffParts[k].value)[3 - t])
    /\ response.summary.additions = 1
    /\ response.summary.removals = 0
    /\ response.summary.unit = "words"
    /\ (leftResult.text = HelloWorld /\ rightResult.text = HelloBraveWorld) =>
         \E k \in 1 .. Len(diffParts) :
           /\ Kind(diffParts[k]) = "Inserted"
           /\ diffParts[k].value = <<"b", "r", "a", "v", "e", " ">>

C10_Witness ==
  /\ Responded
  /\ diffMode = "words"
  /\ leftResult.text = HelloWorld
  /\ rightResult.text = HelloBraveWorld
  /\ KindCount(diffParts, "Inserted") = 1
  /\ response.summary.additions = 1

(***************************************************************************)
(* Structured records: locations and paths.                                *)
(***************************************************************************)
KeyStep(key) == [index |-> FALSE, name |-> key, num |-> 0]

IndexStep(i) == [index |-> TRUE, name |-> ToString(i), num |-> i]

IsScalar(v) == v.t \notin {"arr", "obj"}

RECURSIVE LeafLocs(_)
\* the locations of the scalars (null included) of a JSON value, each the
\* sequence of keys and indices that leads to it
LeafLocs(v) ==
  IF IsScalar(v) THEN {<<>>}
  ELSE UNION {{<<IF v.t = "arr" THEN IndexStep(i - 1) ELSE KeyStep(v.kids[i].k)>> \o p :
                 p \in LeafLocs(v.kids[i].val)} : i \in 1 .. Len(v.kids)}

RECURSIVE PathOf(_)
\* the address of a location: .key (bare at the root) and [i]
PathOf(loc) ==
  IF loc = <<>> THEN ""
  ELSE LET before == PathOf(SubSeq(loc, 1, Len(loc) - 1))
           st == loc[Len(loc)]
       IN  IF st.index THEN before \o "[" \o st.name \o "]"
           ELSE IF before = "" THEN st.name
           ELSE before \o "." \o st.name

RECURSIVE At(_, _)
\* what the code reads at a location of a value
At(v, loc) ==
  IF loc = <<>> THEN v
  ELSE IF Head(loc).index
  THEN IF v.t = "arr" THEN At(getIndex(v, Head(loc).num), Tail(loc)) ELSE Undefined
  ELSE IF v.t = "obj" THEN At(getKey(v, Head(loc).name), Tail(loc)) ELSE Undefined

Prefixes(loc) == {SubSeq(loc, 1, n) : n \in 0 .. Len(loc)}

RECURSIVE DeepEqual(_, _)
\* equality of JSON values, whatever the order of an object's keys
DeepEqual(a, b) ==
  /\ a.t = b.t
  /\ CASE a.t = "arr" ->
            /\ Len(a.kids) = Len(b.kids)
            /\ \A i \in 1 .. Len(a.kids) : DeepEqual(a.kids[i].val, b.kids[i].val)
       [] a.t = "obj" ->
            /\ {a.kids[i].k : i \in 1 .. Len(a.kids)} = {b.kids[i].k : i \in 1 .. Len(b.kids)}
            /\ \A i \in 1 .. Len(a.kids) : \A j \in 1 .. Len(b.kids) :
                 a.kids[i].k = b.kids[j].k => DeepEqual(a.kids[i].val, b.kids[j].val)
       [] OTHER -> a.s = b.s

StructuredCompared ==
  /\ Responded
  /\ isTruthy(leftResult.structuredOutput)
  /\ isTruthy(rightResult.structuredOutput)

Changes == response.structuredDiff.changes

RecordsAt(paths, types) ==
  {i \in 1 .. Len(Changes) : Changes[i].path \in paths /\ Changes[i].type \in types}

OneSidedLeaves(l, r) ==
  (LeafLocs(l) \ LeafLocs(r)) \cup (LeafLocs(r) \ LeafLocs(l))

DivergingLeaves(l, r) ==
  {p \in LeafLocs(l) \cap LeafLocs(r) : ~DeepEqual(At(l, p), At(r, p))}

AllTypes == {"added", "removed", "changed"}

C6_RecordInvariant ==
  StructuredCompared =>
    \A i \in 1 .. Len(Changes) :
      /\ Changes[i].type \in AllTypes
      /\ Changes[i].type = "added" => Changes[i].left = Null
      /\ Changes[i].type = "removed" => Changes[i].right = Null
      /\ Changes[i].type = "changed" => ~DeepEqual(Changes[i].left, Changes[i].right)

C6_Witness ==
  /\ StructuredCompared
  /\ \A type \in AllTypes : RecordsAt({Changes[i].path : i \in 1 .. Len(Changes)}, {type}) # {}

(***************************************************************************)
(* Scenarios and degenerate inputs.                                        *)
(***************************************************************************)
PlainRow(text) == [tag |-> LineTagOf("Unchanged"), body |-> text]

\* C11: in lines mode "a\nb\n" against "a\nc\n" renders exactly two
\* line-blocks per side: row 1 the unchanged "a" on both sides, row 2 the
\* removed "b" on the left beside the inserted "c" on the right
C11_TwoAlignedRows ==
  (Responded /\ diffMode = "lines"
     /\ leftResult.text = LinesAB /\ rightResult.text = LinesAC) =>
    LET L == Rows(response.sideBySideHtml.left)
        R == Rows(response.sideBySideHtml.right)
    IN  /\ Len(L) = 2
        /\ Len(R) = 2
        /\ L[1] = PlainRow(<<"a">>)
        /\ R[1] = PlainRow(<<"a">>)
        /\ L[2] = [tag |-> LineTagOf("Removed"), body |-> <<"b">>]
        /\ R[2] = [tag |-> LineTagOf("Inserted"), body |-> <<"c">>]

\* what the scenario of C11 renders instead: six line-blocks per side, the
\* removed "b" in row 3 and the inserted "c" in row 5
C11_Witness ==
  /\ Responded
  /\ diffMode = "lines"
  /\ leftResult.text = LinesAB
  /\ rightResult.text = LinesAC
  /\ LET L == Rows(response.sideBySideHtml.left)
         R == Rows(response.sideBySideHtml.right)
         Empty == [tag |-> LineTagOf("Placeholder"), body |-> <<>>]
     IN  /\ L = <<PlainRow(<<"a">>), PlainRow(<<>>),
                  [tag |-> LineTagOf("Removed"), body |-> <<"b">>],
                  [tag |-> LineTagOf("Removed"), body |-> <<>>],
                  Empty, Empty>>
         /\ R = <<PlainRow(<<"a">>), PlainRow(<<>>),
                  Empty, Empty,
                  [tag |-> LineTagOf("Inserted"), body |-> <<"c">>],
                  [tag |-> LineTagOf("Inserted"), body |-> <<>>]>>

IsFlatObject(v) ==
  /\ v.t = "obj"
  /\ \A i \in 1 .. Len(v.kids) : IsScalar(v.kids[i].val)
  /\ \A i, j \in 1 .. Len(v.kids) : v.kids[i].k = v.kids[j].k => i = j

OwnKeys(v) == {v.kids[i].k : i \in 1 .. Len(v.kids)}

OwnValue(v, key) == v.kids[CHOOSE i \in 1 .. Len(v.kids) : v.kids[i].k = key].val

\* the keys of two flat objects of equal key sets whose scalars differ
DifferingKeys(l, r) == {key \in OwnKeys(l) : OwnValue(l, key) # OwnValue(r, key)}

\* C12: two flat objects with the same keys that differ in the scalar of
\* exactly one key k give structuredDiff.total = 1 and the single change
\* {path: k, type: "changed", left, right} with the two values of k
C12_OneChangedKey ==
  StructuredCompared =>
    LET l == leftResult.structuredOutput
        r == rightResult.structuredOutput
    IN  (IsFlatObject(l) /\ IsFlatObject(r) /\ OwnKeys(l) = OwnKeys(r)
           /\ Cardinality(DifferingKeys(l, r)) = 1) =>
          LET k == CHOOSE key \in DifferingKeys(l, r) : TRUE
          IN  /\ response.status = 200
              /\ response.structuredDiff.total = 1
              /\ Changes = <<[path |-> k, type |-> "changed",
                              left |-> OwnValue(l, k), right |-> OwnValue(r, k)]>>

C12_Witness ==
  /\ StructuredCompared
  /\ leftResult.structuredOutput = InvoiceLeft
  /\ rightResult.structuredOutput = InvoiceRight
  /\ Len(Changes) = 1
  /\ Changes[1].path = "invoice_number"

BothEmpty == Responded /\ leftResult.text = <<>> /\ rightResult.text = <<>>

\* C13 as stated: two empty texts give status 200, no segment, totalParts,
\* additions and removals 0, and an empty inlineHtml and empty side-by-side
\* streams in words mode and in lines mode
C13_AsStated ==
  BothEmpty =>
    /\ response.status = 200
    /\ diffParts = <<>>
    /\ response.summary.totalParts = 0
    /\ response.summary.additions = 0
    /\ response.summary.removals = 0
    /\ response.inlineHtml = <<>>
    /\ response.sideBySideHtml.left = <<>>
    /\ response.sideBySideHtml.right = <<>>

EmptyLines == <<"<div class=\"diff-lines\">", "</div>">>

\* C13, amended: two empty texts give status 200, no segment, totalParts,
\* additions and removals 0; the three render outputs are the empty string
\* in words mode and the diff-lines wrapper without any line-block in lines
\* mode
C13_EmptyTexts ==
  BothEmpty =>
    /\ response.status = 200
    /\ diffParts = <<>>
    /\ response.summary.totalParts = 0
    /\ response.summary.additions = 0
    /\ response.summary.removals = 0
    /\ LET nothing == IF diffMode = "lines" THEN EmptyLines ELSE <<>>
       IN  /\ response.inlineHtml = nothing
           /\ response.sideBySideHtml.left = nothing
           /\ response.sideBySideHtml.right = nothing
    /\ diffMode = "lines" =>
         /\ Rows(response.inlineHtml) = <<>>
         /\ Rows(response.sideBySideHtml.left) = <<>>
         /\ Rows(response.sideBySideHtml.right) = <<>>

C13_Witness == BothEmpty /\ diffMode = "lines" /\ response.inlineHtml = EmptyLines

\* the comparison units of a text in a mode
Units(mode, text) ==
  LET tokens == IF mode = "lines" THEN TokenizeLines(text) ELSE TokenizeWords(text)
  IN  {tokens[i] : i \in 1 .. Len(tokens)}

Disjoint(mode, left, right) ==
  /\ left # <<>>
  /\ right # <<>>
  /\ Units(mode, left) \cap Units(mode, right) = {}

\* C20: an empty left against a non-empty right gives exactly one Inserted
\* segment holding all of right; two non-empty texts without a common unit
\* give exactly a Removed segment holding all of left followed by an
\* Inserted segment holding all of right; neither fails
C20_Degenerate ==
  Responded =>
    /\ (leftResult.text = <<>> /\ rightResult.text # <<>>) =>
         /\ response.status = 200
         /\ Len(diffParts) = 1
         /\ Kind(diffParts[1]) = "Inserted"
         /\ diffParts[1].value = rightResult.text
    /\ Disjoint(diffMode, leftResult.text, rightResult.text) =>
         /\ response.status = 200
         /\ Len(diffParts) = 2
         /\ Kind(diffParts[1]) = "Removed"
         /\ diffParts[1].value = leftResult.text
         /\ Kind(diffParts[2]) = "Inserted"
         /\ diffParts[2].value = rightResult.text

C20_Witness ==
  /\ Responded
  /\ Disjoint(diffMode, leftResult.text, rightResult.text)
  /\ Cardinality(Units(diffMode, leftResult.text)) >= 2
  /\ Cardinality(Units(diffMode, rightResult.text)) >= 2
  /\ Len(diffParts) = 2

(***************************************************************************)
(* Excerpts.                                                               *)
(***************************************************************************)
RECURSIVE BucketOf(_, _, _)
\* the snippets of the segments of one kind, in order, a candidate dropped
\* exactly when the bucket already holds it up to case
BucketOf(parts, kind, bucket) ==
  IF parts = <<>> THEN bucket
  ELSE LET cleaned == collapseWhitespace(Head(parts).value)
           cand    == truncateText(cleaned, MaxSnippetLen)
           keep    == /\ Kind(Head(parts)) = kind
                      /\ Len(bucket) < MaxSnippets
                      /\ Len(cleaned) >= MinSnippetLen
                      /\ \A i \in 1 .. Len(bucket) :
                           toLowerCase(bucket[i]) # toLowerCase(cand)
       IN  BucketOf(Tail(parts), kind, IF keep THEN Append(bucket, cand) ELSE bucket)

\* C19: collectDiffSnippets drops a candidate exactly when the bucket it goes
\* to already holds it up to case; the other bucket does not matter, so a
\* text removed in one place and inserted in another is in both buckets
C19_PerBucketDedup ==
  Responded =>
    /\ insightsInput.excerpts.added = BucketOf(diffParts, "Inserted", <<>>)
    /\ insightsInput.excerpts.removed = BucketOf(diffParts, "Removed", <<>>)

\* the request on which the excerpts lose the inserted spelling
C19_Witness ==
  /\ Responded
  /\ diffMode = "words"
  /\ leftResult.text = WordUpper
  /\ rightResult.text = WordLower
  /\ KindCount(diffParts, "Removed") = 1
  /\ KindCount(diffParts, "Inserted") = 1
  /\ insightsInput.excerpts.removed = <<WordUpper>>
  /\ insightsInput.excerpts.added = <<>>

(***************************************************************************)
(* Summarizer failures.                                                    *)
(***************************************************************************)
\* the summarizer is configured, its request is answered OK and a value is
\* read from the answer
SummarizerSucceeds(summarizer) ==
  /\ summarizerCalled(summarizer)
  /\ summarizer.reply \notin {"timeout", "networkError", "httpError", "notJson"}
  /\ parsedOf(summarizerPayload(summarizer.reply)) # Undefined

\* the response of the same comparison when the summarizer succeeds
ResponseOtherwise ==
  compareResponse(diffMode, leftResult, rightResult,
                  computeDiffParts(diffMode, leftResult.text, rightResult.text),
                  computeStructuredDiff(leftResult, rightResult),
                  generateInsightsWithOpenAI(SummarizerOk).value)

\* C14: whatever the summarizer does (disabled, no API key, no prompt
\* template, non-OK reply, unparsable reply, network error, timeout), the
\* comparison never fails: it responds 200 with the summary, inlineHtml,
\* sideBySideHtml, extracted and structuredDiff it has when the summarizer
\* succeeds, and unless the summarizer succeeds insights is
\* {enabled: false, provider: "openai", error: <a message>}.
C14_InsightsOptional ==
  /\ pc # "failed"
  /\ pc = "responded" =>
       /\ response.status = 200
       /\ response.summary = ResponseOtherwise.summary
       /\ response.inlineHtml = ResponseOtherwise.inlineHtml
       /\ response.sideBySideHtml = ResponseOtherwise.sideBySideHtml
       /\ response.extracted = ResponseOtherwise.extracted
       /\ response.structuredDiff = ResponseOtherwise.structuredDiff
       /\ ~SummarizerSucceeds(env.summarizer) =>
            /\ response.insights.enabled = FALSE
            /\ response.insights.provider = "openai"
            /\ response.insights.error # ""

\* a comparison with changes answered after the request to the summarizer
\* ended with a network error
C14_Witness ==
  /\ pc = "responded"
  /\ env.summarizer = Summarizer(TRUE, TRUE, TRUE, "networkError", "fetch failed")
  /\ calls.summarizer = 1
  /\ response.status = 200
  /\ response.summary.additions > 0
  /\ response.insights = [enabled |-> FALSE, provider |-> "openai", error |-> "fetch failed",
                          result |-> Undefined]

(***************************************************************************)
(* Validation.                                                             *)
(***************************************************************************)
FileMissing(req) == ~req.leftFile.present \/ ~req.rightFile.present

\* structured extraction is asked for with no schema or with one that is not JSON
SchemaUnusable(req) ==
  /\ toLowerCase(req.structured_enabled) = TrueText
  /\ req.structured_schema \in {"absent", "empty", "notJson"}

SchemaMessages ==
  {"Structured extraction enabled, but no schema was provided.",
   "Structured schema must be valid JSON."}

\* C15: once the handler has run on a request with a missing file, the
\* response is 400 "Please upload both documents."; on a request with both
\* files whose structured_enabled is true and whose structured_schema is
\* absent or not valid JSON, the response is 400 with a schema message; in
\* both cases extract, extractAsync, getJob and the summarizer were never
\* called.
C15_ValidationFirst ==
  (pc # "received" /\ (FileMissing(request) \/ SchemaUnusable(request))) =>
    /\ pc = "failed"
    /\ response.status = 400
    /\ IF FileMissing(request)
       THEN response.error = "Please upload both documents."
       ELSE response.error \in SchemaMessages
    /\ calls = NoCalls
    /\ \A s \in Sides : extraction[s].pc = "idle"

\* both files uploaded, structured extraction enabled in capitals, the
\* schema empty: answered 400 with no call made
C15_Witness ==
  /\ pc = "failed"
  /\ request = [leftFile |-> File(1), rightFile |-> File(2),
                structured_enabled |-> <<"T", "r", "u", "e">>,
                structured_schema |-> "empty"]
  /\ response = [status |-> 400,
                 error |-> "Structured extraction enabled, but no schema was provided."]
  /\ calls = NoCalls

(***************************************************************************)
(* Failure statuses.                                                       *)
(***************************************************************************)
\* the status the request is to be answered with when an extraction ended
\* with error e
StatusFor(e) ==
  IF e.hasStatusCode THEN (IF e.statusCode < 500 THEN e.statusCode ELSE 502)
  ELSE IF e.class = "HttpError" THEN e.status
  ELSE IF e.class = "PulseError" THEN 502
  ELSE 500

\* the request passed validation
Validated(req) == ~FileMissing(req) /\ ~parseStructuredOutput(req).thrown

\* C16: a validated request that failed is answered by category: 500 with
\* the missing-key message when PULSE_API_KEY is missing; otherwise the
\* answer is that of a failed extraction: the upstream status code itself
\* when it is below 500, 502 when it is 500 or more, 500 when the error is
\* not an HttpError and carries no status code; the body carries the
\* error's message (a default one when the error has none).
C16_StatusByCategory ==
  (pc = "failed" /\ Validated(request)) =>
    IF env.config.pulse = "none"
    THEN response = [status |-> 500,
                     error |-> "Missing PULSE_API_KEY environment variable"]
    ELSE \E s \in Sides :
           /\ extraction[s].pc = "failed"
           /\ LET e == extraction[s].caught
              IN  /\ response.status = StatusFor(e)
                  /\ response.error # ""
                  /\ e.message # "" => response.error = e.message

\* the synchronous extraction of the left document threw a PulseError with
\* statusCode 400: answered 400 with its message
C16_Witness ==
  /\ pc = "failed"
  /\ calls.extract["left"] = 1
  /\ extraction["left"].caught =
       UpstreamError("PulseError", TRUE, 400, "Unsupported file type")
  /\ response = [status |-> 400, error |-> "Unsupported file type"]

(***************************************************************************)
(* Extraction mode.                                                        *)
(***************************************************************************)
\* the uploaded file of side s has at least largeFileThresholdBytes bytes
AtLeastThreshold(s) == FileOf(request, s).size >= env.config.largeFileThresholdBytes

\* the extractDocument calls of the request have started
ExtractionStarted ==
  pc # "received" /\ Validated(request) /\ env.config.pulse # "none"

TimedOut == HttpError(504, "Pulse extraction timed out while polling")

Polling(s) == extraction[s].pc = "polling"

\* pollForResult of side s has returned a payload or thrown
PollingOver(s) == extraction[s].pc \in {"done", "failed"}

\* a getJob call of side s is issued only before the deadline
PollsBeforeDeadline ==
  [][\A s \in Sides :
       calls'.getJob[s] # calls.getJob[s] => now < extraction[s].deadline]_vars

\* the deadline is pollTimeoutMs after the start of pollForResult
DeadlineSet ==
  [][\A s \in Sides :
       (~Polling(s) /\ Polling(s)') =>
         extraction'[s].deadline = now + env.config.pollTimeoutMs]_vars

\* a timeout is raised at or after the deadline only, and a request that it
\* is the only failure of is answered 504 with the message of the timeout
TimeoutAnswered ==
  \A s \in Sides :
    (extraction[s].pc = "failed" /\ extraction[s].caught = TimedOut) =>
      /\ now >= extraction[s].deadline
      /\ extraction[OtherSide(s)].pc # "failed" =>
           /\ pc = "failed"
           /\ response = [status |-> 504,
                          error |-> "Pulse extraction timed out while polling"]

\* C17: when every getJob call returns, the polling of a job always ends,
\* with a payload returned or an error thrown; no poll is issued once
\* pollTimeoutMs has passed since polling began; the timeout is raised only
\* then, and the request it fails is answered 504 with a "timed out"
\* message.
C17_PollingTerminates ==
  /\ \A s \in Sides : Polling(s) ~> PollingOver(s)
  /\ PollsBeforeDeadline
  /\ DeadlineSet
  /\ []TimeoutAnswered

\* the job of the right document stayed pending for two polls until the
\* deadline passed, and the request was answered 504
C17_Witness ==
  /\ pc = "failed"
  /\ extraction["right"].pc = "failed"
  /\ extraction["right"].caught = TimedOut
  /\ env.config.pollTimeoutMs = 2
  /\ calls.getJob["right"] = 2
  /\ now >= extraction["right"].deadline
  /\ response = [status |-> 504, error |-> "Pulse extraction timed out while polling"]

(***************************************************************************)
(* Line-blocks against the line counts of the summary.                     *)
(***************************************************************************)
\* how many rows of a stream open with the tag of a kind
TagCount(rows, kind) ==
  Cardinality({j \in 1 .. Len(rows) : rows[j].tag = LineTagOf(kind)})

\* C21: in lines mode the right stream holds summary.additions diff-added
\* blocks and as many placeholders stand in the left stream, the left
\* stream holds summary.removals diff-removed blocks and as many
\* placeholders stand in the right stream: one block per logical line of
\* every Inserted and Removed segment, a value that ends with a newline
\* included.
C21_BlocksMatchCounts ==
  (Responded /\ diffMode = "lines") =>
    LET L == Rows(response.sideBySideHtml.left)
        R == Rows(response.sideBySideHtml.right)
    IN  /\ TagCount(R, "Inserted") = response.summary.additions
        /\ TagCount(L, "Placeholder") = response.summary.additions
        /\ TagCount(L, "Removed") = response.summary.removals
        /\ TagCount(R, "Placeholder") = response.summary.removals

\* one line replaced by another, both ending with a newline: one addition
\* and one removal counted, two blocks of each kind rendered
C21_Witness ==
  /\ Responded
  /\ diffMode = "lines"
  /\ leftResult.text = LinesAB
  /\ rightResult.text = LinesAC
  /\ response.summary.additions = 1
  /\ response.summary.removals = 1
  /\ TagCount(Rows(response.sideBySideHtml.right), "Inserted") = 2
  /\ TagCount(Rows(response.sideBySideHtml.left), "Placeholder") = 2
  /\ TagCount(Rows(response.sideBySideHtml.left), "Removed") = 2

(***************************************************************************)
(* Arrays and shape mismatches in the structured diff.                     *)
(***************************************************************************)
RECURSIVE AllLocs(_)
\* every location of a JSON value: the value itself, and the locations of
\* the elements of an array and of the members of an object
AllLocs(v) ==
  {<<>>} \cup
    (IF IsScalar(v) THEN {}
     ELSE UNION {{<<IF v.t = "arr" THEN IndexStep(i - 1) ELSE KeyStep(v.kids[i].k)>> \o p :
                    p \in AllLocs(v.kids[i].val)} : i \in 1 .. Len(v.kids)})

\* the locations where both sides hold an array
ArrayPairs(l, r) ==
  {p \in AllLocs(l) \cap AllLocs(r) : At(l, p).t = "arr" /\ At(r, p).t = "arr"}

\* the position in the changes of the one record at a path, 0 when there
\* is none or more than one
PositionOf(path) ==
  IF Cardinality(RecordsAt({path}, AllTypes)) = 1
  THEN CHOOSE i \in 1 .. Len(Changes) : Changes[i].path = path
  ELSE 0

\* C22: where both sides hold arrays, of lengths m and n, every index from
\* min(m, n) to max(m, n) - 1 has exactly one record, at path p[i], added
\* when the left array is the shorter and removed when the right one is,
\* the records follow each other in ascending index order, and the array
\* itself has no record.
C22_ArraysByIndex ==
  StructuredCompared =>
    LET l == leftResult.structuredOutput
        r == rightResult.structuredOutput
    IN  \A p \in ArrayPairs(l, r) :
          LET m == Len(At(l, p).kids)
              n == Len(At(r, p).kids)
              at(i) == PathOf(p \o <<IndexStep(i)>>)
          IN  /\ RecordsAt({PathOf(p)}, AllTypes) = {}
              /\ \A i \in Min(m, n) .. Max(m, n) - 1 :
                   /\ PositionOf(at(i)) > 0
                   /\ Changes[PositionOf(at(i))].type =
                        (IF m < n THEN "added" ELSE "removed")
                   /\ i > Min(m, n) => PositionOf(at(i - 1)) < PositionOf(at(i))
              /\ \A i \in 0 .. Min(m, n) - 1 :
                   RecordsAt({at(i)}, {"added", "removed"}) = {}

\* below the key items the left array has three elements and the right one
\* a single one: a changed record at items[0], then removed ones at
\* items[1] and items[2]
C22_Witness ==
  /\ StructuredCompared
  /\ leftResult.structuredOutput = Obj(<<Member("items", LongItems)>>)
  /\ rightResult.structuredOutput = Obj(<<Member("items", ShortItems)>>)
  /\ Len(Changes) = 3
  /\ Changes[1].path = "items[0]" /\ Changes[1].type = "changed"
  /\ Changes[2].path = "items[1]" /\ Changes[2].type = "removed"
  /\ Changes[3].path = "items[2]" /\ Changes[3].type = "removed"

JsonTypes == {"null", "num", "str", "bool", "arr", "obj"}

\* two defined values of different shapes: one an array and the other not,
\* or one an object and the other not
ShapesDiffer(a, b) ==
  /\ a.t \in JsonTypes
  /\ b.t \in JsonTypes
  /\ (a.t \in {"arr", "obj"} \/ b.t \in {"arr", "obj"})
  /\ a.t # b.t

\* the locations where the two sides hold values of different shapes
ShapeMismatches(l, r) ==
  {p \in AllLocs(l) \cup AllLocs(r) : ShapesDiffer(At(l, p), At(r, p))}

\* the locations of either side strictly below p
Below(l, r, p) ==
  {q \in AllLocs(l) \cup AllLocs(r) :
     Len(q) > Len(p) /\ SubSeq(q, 1, Len(p)) = p}

\* C23: where the two sides hold defined values of different shapes there
\* is exactly one record, of type changed, carrying the two whole values,
\* and there is no record at any path below.
C23_ShapeMismatch ==
  StructuredCompared =>
    LET l == leftResult.structuredOutput
        r == rightResult.structuredOutput
    IN  \A p \in ShapeMismatches(l, r) :
          /\ PositionOf(PathOf(p)) > 0
          /\ Changes[PositionOf(PathOf(p))] =
               [path |-> PathOf(p), type |-> "changed",
                left |-> At(l, p), right |-> At(r, p)]
          /\ RecordsAt({PathOf(q) : q \in Below(l, r, p)}, AllTypes) = {}

\* below the key k a non-empty object on the left and a non-empty array on
\* the right: the only record is the changed one at k
C23_Witness ==
  /\ StructuredCompared
  /\ LET l == leftResult.structuredOutput
         r == rightResult.structuredOutput
         p == <<KeyStep("k")>>
     IN  /\ At(l, p).t = "obj" /\ Len(At(l, p).kids) > 0
         /\ At(r, p).t = "arr" /\ Len(At(r, p).kids) > 0
         /\ Len(Changes) = 1
         /\ Changes[1] = [path |-> "k", type |-> "changed",
                          left |-> At(l, p), right |-> At(r, p)]

(***************************************************************************)
(* The bounds of the excerpt collector.                                    *)
(***************************************************************************)
RECURSIVE IsSubsequence(_, _)
\* the elements of list occur in seq, in the same order
IsSubsequence(list, seq) ==
  IF list = <<>> THEN TRUE
  ELSE IF seq = <<>> THEN FALSE
  ELSE IF Head(list) = Head(seq) THEN IsSubsequence(Tail(list), Tail(seq))
  ELSE IsSubsequence(list, Tail(seq))

\* the snippets of the scanned segments of one kind, in document order
Candidates(kind) ==
  LET scanned == SubSeq(diffParts, 1, collector.scanned)
      ofKind  == SelectSeq(scanned, LAMBDA part : Kind(part) = kind)
  IN  [i \in 1 .. Len(ofKind) |->
         truncateText(collapseWhitespace(ofKind[i].value), collector.maxLen)]

AddedFull == Len(collector.acc.added) >= collector.maxSnippets

RemovedFull == Len(collector.acc.removed) >= collector.maxSnippets

\* each list holds at most maxSnippets snippets, taken in document order
\* from the segments of its kind
BoundedInOrder ==
  /\ Len(collector.acc.added) <= collector.maxSnippets
  /\ Len(collector.acc.removed) <= collector.maxSnippets
  /\ IsSubsequence(collector.acc.added, Candidates("Inserted"))
  /\ IsSubsequence(collector.acc.removed, Candidates("Removed"))
  /\ pc = "collected" =>
       insightsInput.excerpts = [added |-> collector.acc.added,
                                 removed |-> collector.acc.removed]

\* a list that holds maxSnippets snippets is not changed by a later segment
FullListKept ==
  [][/\ AddedFull => collector'.acc.added = collector.acc.added
     /\ RemovedFull => collector'.acc.removed = collector.acc.removed]_vars

\* when both lists are full no further segment is taken
FullStopsScan ==
  [][(AddedFull /\ RemovedFull) => collector'.scanned = collector.scanned]_vars

BothSettled == \A s \in Sides : extraction[s].pc \in {"done", "failed"}

\* what the request is answered with when the extraction of side s is the
\* first to fail
AnswerToFailureOf(s) == handlerCatch(extraction[s].outcome.error)

\* C25: the response is determined by the two outcomes, whichever side
\* finished first: when a side failed the response is the answer to that
\* failure, so with two failures both answers are the same; when both
\* succeeded, extracted.left and structuredOutput.left are those of the
\* left result and extracted.right and structuredOutput.right those of the
\* right one.
C25_OrderIndependent ==
  BothSettled =>
    /\ \A s \in Sides :
         extraction[s].pc = "failed" => pc = "failed" /\ response = AnswerToFailureOf(s)
    /\ (\A s \in Sides : extraction[s].pc = "done") =>
         /\ pc \in {"extracted", "responded"}
         /\ leftResult = extraction["left"].outcome.value
         /\ rightResult = extraction["right"].outcome.value
         /\ pc = "responded" =>
              /\ response.status = 200
              /\ response.extracted.left = extraction["left"].outcome.value.text
              /\ response.extracted.right = extraction["right"].outcome.value.text
              /\ response.structuredOutput.left =
                   orNullIfFalsy(extraction["left"].outcome.value.structuredOutput)
              /\ response.structuredOutput.right =
                   orNullIfFalsy(extraction["right"].outcome.value.structuredOutput)

\* the left extraction was rejected with 400 and the right one with 502:
\* here the request was answered 502, the right one having failed first
C25_Witness ==
  /\ pc = "failed"
  /\ extraction["left"].pc = "failed"
  /\ extraction["right"].pc = "failed"
  /\ AnswerToFailureOf("left") = [status |-> 400, error |-> "Unsupported file type"]
  /\ AnswerToFailureOf("right") = [status |-> 502, error |-> "Bad gateway"]
  /\ response = [status |-> 502, error |-> "Bad gateway"]

(***************************************************************************)
(* Failed and canceled jobs.                                               *)
(***************************************************************************)
\* the polling of side s ended on a payload whose status is failed or canceled
JobFailed(s) == extraction[s].reply.status \in {"failed", "canceled"}

\* C26: a getJob payload whose status is failed or canceled makes the
\* extraction fail with an HttpError of status 502, whatever else the
\* payload carries (a result included), and never yields an extraction
\* result.
C26_FailedJobFails ==
  \A s \in Sides :
    JobFailed(s) =>
      /\ extraction[s].pc = "failed"
      /\ extraction[s].outcome.thrown
      /\ extraction[s].outcome.error.class = "HttpError"
      /\ extraction[s].outcome.error.status = 502

\* the job of the right document was reported failed with a result, the
\* extraction returned that result and the comparison was answered 200
C26_Witness ==
  /\ pc = "responded"
  /\ response.status = 200
  /\ extraction["right"].reply = JobReply("failed", TRUE, "")
  /\ extraction["right"].pc = "done"
  /\ response.extracted.right = extraction["right"].outcome.value.text

Addressed(path) ==
  {p \in AllLocs(leftResult.structuredOutput) \cup AllLocs(rightResult.structuredOutput) :
     PathOf(p) = path}

\* C28: the paths of the records of one diffStructured call are pairwise
\* distinct, and each path addresses exactly one location of the
\* structured records, whatever strings the object keys are (keys holding
\* '.' or '[' and the empty key included).
C28_PathsDistinct ==
  StructuredCompared =>
    /\ \A i \in 1 .. Len(Changes) : \A j \in 1 .. Len(Changes) :
         i # j => Changes[i].path # Changes[j].path
    /\ \A i \in 1 .. Len(Changes) : Cardinality(Addressed(Changes[i].path)) = 1

\* an object with the key a.b and with the key b below the key a was
\* compared: both differences are reported at the path a.b
C28_Witness ==
  /\ StructuredCompared
  /\ leftResult.structuredOutput =
       Obj(<<Member("a", Obj(<<Member("b", Num("1"))>>)), Member("a.b", Num("1"))>>)
  /\ rightResult.structuredOutput =
       Obj(<<Member("a", Obj(<<Member("b", Num("2"))>>)), Member("a.b", Num("2"))>>)
  /\ Len(Changes) = 2
  /\ Changes[1].path = "a.b"
  /\ Changes[2].path = "a.b"
  /\ Changes[1].left = Num("1")
  /\ Changes[2].right = Num("2")

(***************************************************************************)
(* The result of the insights.                                             *)
(***************************************************************************)
\* the value the summarizer's reply offers as the insight object
Offered == parsedOf(summarizerPayload(env.summarizer.reply))

\* C29: whenever the insights of a response have enabled = true, their
\* result is a non-null insight object taken from the summarizer's reply
\* (its output_parsed, or else its output text parsed as JSON); a reply
\* from which no such object can be obtained gives enabled = false with an
\* error message.
C29_EnabledHasResult ==
  pc = "responded" =>
    /\ response.insights.enabled =>
         /\ response.insights.result.t = "obj"
         /\ response.insights.result = Offered
    /\ summarizerCalled(env.summarizer) /\ Offered.t # "obj" =>
         /\ ~response.insights.enabled
         /\ response.insights.error # ""

\* the summarizer answered OK with output_parsed: null and the response
\* carries enabled insights whose result is null
C29_Witness ==
  /\ pc = "responded"
  /\ env.summarizer = Summarizer(TRUE, TRUE, TRUE, "parsedNull", "")
  /\ calls.summarizer = 1
  /\ response.status = 200
  /\ response.insights.enabled
  /\ response.insights.result = Null

(***************************************************************************)
(* Schemas that are JSON and no object.                                    *)
(***************************************************************************)
\* structured extraction is asked for with a schema that is valid JSON and
\* parses to a number, a string, a boolean, null or an array
SchemaNoObject(req) ==
  /\ toLowerCase(req.structured_enabled) = TrueText
  /\ req.structured_schema \in {"null", "scalar", "array"}

\* C30: with structured_enabled true, a structured_schema that is valid
\* JSON and no object (a number, a string, a boolean, null or an array) is
\* rejected with status 400 and the message "Structured schema must be a
\* JSON object.", and no extraction call is made.
C30_SchemaMustBeObject ==
  (pc # "received" /\ ~FileMissing(request) /\ SchemaNoObject(request)) =>
    /\ pc = "failed"
    /\ response = [status |-> 400, error |-> "Structured schema must be a JSON object."]
    /\ calls = NoCalls
    /\ \A s \in Sides : extraction[s].pc = "idle"

\* a request whose schema is a JSON array went through both extractions
\* and was answered 200
C30_Witness ==
  /\ pc = "responded"
  /\ request = [leftFile |-> File(1), rightFile |-> File(1),
                structured_enabled |-> TrueText, structured_schema |-> "array"]
  /\ response.status = 200
  /\ calls.extract["left"] + calls.extractAsync["left"] = 1
  /\ calls.extract["right"] + calls.extractAsync["right"] = 1
====
